---- MODULE Spec2Model ----
(***************************************************************************)
(* LUMEN v0.1 (src/lumen.js): tokenizer, recursive-descent parser and the  *)
(* two-pass compiler, modelled as a state machine over the public API      *)
(* (LUMEN.tokenize, LUMEN.parse, LUMEN.compile) and the runtime pipeline.  *)
(*                                                                         *)
(* Text is a sequence of one-character strings; src[i] of the JavaScript   *)
(* (0-based) is At(src, i).  Output declarations are TLA+ strings.         *)
(***************************************************************************)
EXTENDS Integers, Sequences, FiniteSets, TLC

VARIABLES
  input,       \* how the text or tree handed to the API was built
  pc,          \* position in the pipeline: idle, lex, parse, compile, done, failed
  src,         \* tokenize: the source text
  i,           \* tokenize: read index (0-based, as in the code)
  afterColon,  \* tokenize: value-capture flag
  tokens,      \* tokenize: tokens pushed so far; parse: its input
  ast,         \* parse: its result
  output,      \* compile: its result
  idCounter,   \* _idCounter, shared by every compile call of the process
  epoch,       \* number of times the script has been loaded anew
  runs,        \* finished compile calls, oldest first: [epoch, src, prog, start, out]
  host         \* the document: the style element, the mount containers, the
               \* number of script elements init has handed to processScript

vars == <<input, pc, src, i, afterColon, tokens, ast, output, idCounter, epoch, runs, host>>

----------------------------------------------------------------------------
(* Generic helpers *)

Min(S) == CHOOSE x \in S : \A y \in S : x <= y

RECURSIVE Join(_)
Join(s) == IF s = <<>> THEN "" ELSE Head(s) \o Join(Tail(s))

\* src[k] of the code: "undefined" past the end
At(s, k) == IF k >= 0 /\ k < Len(s) THEN s[k + 1] ELSE "undefined"

\* s.slice(a, b) for 0 <= a
Slice(s, a, b) ==
  LET e == IF b > Len(s) THEN Len(s) ELSE b
  IN  IF a >= e THEN <<>> ELSE SubSeq(s, a + 1, e)

WhiteSpace == {" ", "\t", "\n", "\r"}

RECURSIVE TrimRight(_)
TrimRight(s) ==
  IF s # <<>> /\ s[Len(s)] \in WhiteSpace THEN TrimRight(SubSeq(s, 1, Len(s) - 1)) ELSE s

RECURSIVE TrimLeft(_)
TrimLeft(s) == IF s # <<>> /\ Head(s) \in WhiteSpace THEN TrimLeft(Tail(s)) ELSE s

Trim(s) == TrimLeft(TrimRight(s))

----------------------------------------------------------------------------
(* SECTION 1: TOKENIZER *)

TT == [KEYWORD |-> "KEYWORD", IDENT |-> "IDENT", STRING |-> "STRING",
       COLON |-> "COLON", LBRACE |-> "LBRACE", RBRACE |-> "RBRACE",
       VALUE |-> "VALUE", NEWLINE |-> "NEWLINE", EOF |-> "EOF"]

KEYWORDS == {"surface", "material", "text"}

\* string keys every object literal inherits from Object.prototype
ObjectPrototypeKeys ==
  {"constructor", "toString", "valueOf", "hasOwnProperty", "isPrototypeOf",
   "propertyIsEnumerable", "toLocaleString", "__proto__", "__defineGetter__",
   "__defineSetter__", "__lookupGetter__", "__lookupSetter__"}

\* the lookup with material left out of the reserved words
ReservedExceptMaterial(word) == word \in (KEYWORDS \ {"material"}) \/ word \in ObjectPrototypeKeys

\* KEYWORDS[word] is truthy: an own entry, or a key the object inherits
Reserved(word) == word \in KEYWORDS \/ word \in ObjectPrototypeKeys

Lower == {"a","b","c","d","e","f","g","h","i","j","k","l","m",
          "n","o","p","q","r","s","t","u","v","w","x","y","z"}
Upper == {"A","B","C","D","E","F","G","H","I","J","K","L","M",
          "N","O","P","Q","R","S","T","U","V","W","X","Y","Z"}
Digit == {"0","1","2","3","4","5","6","7","8","9"}

\* /[a-zA-Z_]/ and /[a-zA-Z0-9_-]/
IdentStart == Lower \cup Upper \cup {"_"}
IdentChar  == IdentStart \cup Digit \cup {"-"}

\* a token; value is <<>> for the kinds that carry none
Tok(type, value) == [type |-> type, value |-> value]

\* first index j >= k with j = len or src[j] in stops
ScanTo(s, k, stops) ==
  IF k >= Len(s) THEN k
  ELSE Min({j \in k..Len(s) : j = Len(s) \/ At(s, j) \in stops})

\* first index j >= k with j = len or src[j] not in skip
ScanPast(s, k, skip) ==
  IF k >= Len(s) THEN k
  ELSE Min({j \in k..Len(s) : j = Len(s) \/ At(s, j) \notin skip})

\* value capture: up to a line break or the start of a line comment
ScanValue(s, k) ==
  IF k >= Len(s) THEN k
  ELSE Min({j \in k..Len(s) :
              \/ j = Len(s)
              \/ At(s, j) \in {"\n", "\r"}
              \/ (At(s, j) = "/" /\ At(s, j + 1) = "/")})

\* block comment body: up to the closing star-slash
ScanBlockEnd(s, k) ==
  IF k >= Len(s) THEN k
  ELSE Min({j \in k..Len(s) : j = Len(s) \/ (At(s, j) = "*" /\ At(s, j + 1) = "/")})

\* the branch of the loop body taken at state st = [i, afterColon, tokens]
TokBranch(s, st) ==
  LET ch == At(s, st.i) IN
  IF ch \in {"\n", "\r"} THEN "newline"
  ELSE IF st.afterColon THEN "value"
  ELSE IF ch \in {" ", "\t"} THEN "space"
  ELSE IF ch = "/" /\ At(s, st.i + 1) = "/" THEN "linecomment"
  ELSE IF ch = "/" /\ At(s, st.i + 1) = "*" THEN "blockcomment"
  ELSE IF ch = "{" THEN "lbrace"
  ELSE IF ch = "}" THEN "rbrace"
  ELSE IF ch = ":" THEN "colon"
  ELSE IF ch = "\"" THEN "string"
  ELSE IF ch \in IdentStart THEN "ident"
  ELSE "unknown"

\* the branches of the loop body, each from st = [i, afterColon, tokens]
LexNewline(s, st) ==
  [i |-> st.i + 1, afterColon |-> FALSE,
   tokens |-> Append(st.tokens, Tok(TT.NEWLINE, <<>>))]

\* LexValue with the reset of the value-capture flag forgotten
LexValueKeepsMode(s, st) ==
  LET valStart == ScanPast(s, st.i, {" ", "\t"})
      valEnd   == ScanValue(s, valStart)
      val      == TrimRight(Slice(s, valStart, valEnd))
  IN  [i |-> valEnd, afterColon |-> TRUE,
       tokens |-> IF Len(val) > 0 THEN Append(st.tokens, Tok(TT.VALUE, val))
                  ELSE st.tokens]

LexValue(s, st) ==
  LET valStart == ScanPast(s, st.i, {" ", "\t"})
      valEnd   == ScanValue(s, valStart)
      val      == TrimRight(Slice(s, valStart, valEnd))
  IN  [i |-> valEnd, afterColon |-> FALSE,
       tokens |-> IF Len(val) > 0 THEN Append(st.tokens, Tok(TT.VALUE, val))
                  ELSE st.tokens]

LexSpace(s, st) == [st EXCEPT !.i = st.i + 1]

LexLineComment(s, st) == [st EXCEPT !.i = ScanTo(s, st.i, {"\n"})]

LexBlockComment(s, st) == [st EXCEPT !.i = ScanBlockEnd(s, st.i + 2) + 2]

LexBrace(s, st) ==
  [st EXCEPT !.i = st.i + 1,
             !.tokens = Append(st.tokens,
                               Tok(IF At(s, st.i) = "{" THEN TT.LBRACE ELSE TT.RBRACE, <<>>))]

\* LexColon with value capture not switched on
LexColonNoCapture(s, st) ==
  [i |-> st.i + 1, afterColon |-> FALSE,
   tokens |-> Append(st.tokens, Tok(TT.COLON, <<>>))]

LexColon(s, st) ==
  [i |-> st.i + 1, afterColon |-> TRUE,
   tokens |-> Append(st.tokens, Tok(TT.COLON, <<>>))]

LexString(s, st) ==
  LET strStart == st.i + 1
      strEnd   == ScanTo(s, strStart, {"\""})
  IN  [st EXCEPT !.i = strEnd + 1,
                 !.tokens = Append(st.tokens, Tok(TT.STRING, Slice(s, strStart, strEnd)))]

LexIdent(s, st) ==
  LET wordEnd == ScanPast(s, st.i, IdentChar)
      word    == Slice(s, st.i, wordEnd)
  IN  [st EXCEPT !.i = wordEnd,
                 !.tokens = Append(st.tokens,
                                   IF Reserved(Join(word)) THEN Tok(TT.KEYWORD, word)
                                   ELSE Tok(TT.IDENT, word))]

LexUnknown(s, st) == [st EXCEPT !.i = st.i + 1]

\* one iteration of the while loop of tokenize
TokStep(s, st) ==
  LET b == TokBranch(s, st) IN
  CASE b = "newline"      -> LexNewline(s, st)
    [] b = "value"        -> LexValue(s, st)
    [] b = "space"        -> LexSpace(s, st)
    [] b = "linecomment"  -> LexLineComment(s, st)
    [] b = "blockcomment" -> LexBlockComment(s, st)
    [] b \in {"lbrace", "rbrace"} -> LexBrace(s, st)
    [] b = "colon"        -> LexColon(s, st)
    [] b = "string"       -> LexString(s, st)
    [] b = "ident"        -> LexIdent(s, st)
    [] OTHER              -> LexUnknown(s, st)

RECURSIVE TokLoop(_, _)
TokLoop(s, st) == IF st.i < Len(s) THEN TokLoop(s, TokStep(s, st)) ELSE st

\* tokenize(src): the loop run to its end, then the EOF token
tokenize(s) ==
  Append(TokLoop(s, [i |-> 0, afterColon |-> FALSE, tokens |-> <<>>]).tokens,
         Tok(TT.EOF, <<>>))

----------------------------------------------------------------------------
(* SECTION 2: PARSER *)
(* Every step of the parser takes and returns a result                    *)
(* [err, expected, got, pos, val]: pos is the parser's read position and  *)
(* val what the step returned.  err is "none", "LumenError" (thrown by    *)
(* expect) or "TypeError" (a property of tokens[pos] = undefined was      *)
(* read); a step handed a failed result hands it on, as a throw unwinds.  *)

Ok(pos, val) == [err |-> "none", expected |-> "", got |-> "", pos |-> pos, val |-> val]
Throw(kind, expected, got) ==
  [err |-> kind, expected |-> expected, got |-> got, pos |-> 0, val |-> <<>>]
TypeError == Throw("TypeError", "", "")
Failed(r) == r.err # "none"

\* what a function returns after the steps r: the throw, or val
Return(r, val) == IF Failed(r) THEN r ELSE Ok(r.pos, val)

Null == [type |-> "null"]

\* tokens[pos] exists
Defined(toks, pos) == pos >= 0 /\ pos < Len(toks)

\* peek(): tokens[pos]; callers guard with Defined before reading .type
peek(toks, pos) == toks[pos + 1]

\* expect(type) after r: advance, then compare the kind
expect(toks, r, type) ==
  IF Failed(r) THEN r
  ELSE IF ~Defined(toks, r.pos) THEN TypeError
  ELSE IF peek(toks, r.pos).type # type
    THEN Throw("LumenError", type, peek(toks, r.pos).type)
  ELSE Ok(r.pos + 1, peek(toks, r.pos))

\* skipNewlines() after r; r.val is kept
RECURSIVE skipNewlines(_, _)
skipNewlines(toks, r) ==
  IF Failed(r) THEN r
  ELSE IF ~Defined(toks, r.pos) THEN TypeError
  ELSE IF peek(toks, r.pos).type = TT.NEWLINE THEN skipNewlines(toks, Ok(r.pos + 1, r.val))
  ELSE r

\* parseProperty from the value on: tokens[p] is the token after the colon
propertyValue(toks, key, p) ==
  IF ~Defined(toks, p) THEN TypeError
  ELSE IF peek(toks, p).type = TT.VALUE
    THEN Ok(p + 1, [type |-> "Property", key |-> key, value |-> Trim(peek(toks, p).value)])
  ELSE IF peek(toks, p).type = TT.STRING
    THEN Ok(p + 1, [type |-> "Property", key |-> key,
                    value |-> Trim(<<"\"">> \o peek(toks, p).value \o <<"\"">>)])
  ELSE Ok(p, [type |-> "Property", key |-> key, value |-> <<>>])

\* parseProperty after its skipNewlines sk: null unless a colon follows
propertyColon(toks, key, sk) ==
  IF Failed(sk) THEN sk
  ELSE IF peek(toks, sk.pos).type # TT.COLON THEN Ok(sk.pos, Null)
  ELSE propertyValue(toks, key, sk.pos + 1)

\* parseProperty, entered with tokens[pos] an IDENT
parseProperty(toks, pos) ==
  propertyColon(toks, peek(toks, pos).value, skipNewlines(toks, Ok(pos + 1, <<>>)))

\* if (node) list.push(node)
pushNode(list, node) == IF node.type = "null" THEN list ELSE Append(list, node)

RECURSIVE propertyLoop(_, _, _)
RECURSIVE propertyItem(_, _, _)
RECURSIVE propertyNext(_, _, _)

\* the property loop of parseMaterial (and, identically, of parseText)
propertyLoop(toks, r, props) ==
  IF Failed(r) THEN r
  ELSE IF ~Defined(toks, r.pos) THEN TypeError
  ELSE IF peek(toks, r.pos).type \in {TT.RBRACE, TT.EOF} THEN Ok(r.pos, props)
  ELSE propertyItem(toks, skipNewlines(toks, r), props)

\* the loop body after its first skipNewlines sk
propertyItem(toks, sk, props) ==
  IF Failed(sk) THEN sk
  ELSE IF peek(toks, sk.pos).type = TT.RBRACE THEN Ok(sk.pos, props)
  ELSE IF peek(toks, sk.pos).type = TT.IDENT
    THEN propertyNext(toks, parseProperty(toks, sk.pos), props)
  ELSE propertyLoop(toks, skipNewlines(toks, Ok(sk.pos + 1, <<>>)), props)

\* the loop body after parseProperty returned pr
propertyNext(toks, pr, props) ==
  IF Failed(pr) THEN pr
  ELSE propertyLoop(toks, skipNewlines(toks, pr), pushNode(props, pr.val))

\* parseMaterial from expect(RBRACE) on; nm is the name token, body the loop's result
materialEnd(toks, nm, body) ==
  Return(expect(toks, body, TT.RBRACE),
         [type |-> "Material", name |-> nm.val.value, properties |-> body.val])

\* parseMaterial after the name nm
materialBody(toks, nm) ==
  materialEnd(toks, nm,
              propertyLoop(toks,
                           skipNewlines(toks, expect(toks, skipNewlines(toks, nm), TT.LBRACE)),
                           <<>>))

parseMaterial(toks, pos) ==
  materialBody(toks, expect(toks, expect(toks, Ok(pos, <<>>), TT.KEYWORD), TT.IDENT))

\* parseText from expect(RBRACE) of its block on
textEnd(toks, str, body) ==
  Return(expect(toks, body, TT.RBRACE),
         [type |-> "Text", content |-> str.val.value, properties |-> body.val])

\* parseText after the skipNewlines s1 that follows the string str
textBlock(toks, str, s1) ==
  IF Failed(s1) THEN s1
  ELSE IF peek(toks, s1.pos).type # TT.LBRACE
    THEN Ok(s1.pos, [type |-> "Text", content |-> str.val.value, properties |-> <<>>])
  ELSE textEnd(toks, str,
               propertyLoop(toks, skipNewlines(toks, Ok(s1.pos + 1, <<>>)), <<>>))

\* parseText after the string str
textBody(toks, str) == textBlock(toks, str, skipNewlines(toks, str))

parseText(toks, pos) ==
  textBody(toks, expect(toks, expect(toks, Ok(pos, <<>>), TT.KEYWORD), TT.STRING))

RECURSIVE parseSurface(_, _)
RECURSIVE surfaceBody(_, _)
RECURSIVE surfaceLoop(_, _, _, _)
RECURSIVE surfaceItem(_, _, _, _)
RECURSIVE surfaceChild(_, _, _, _)
RECURSIVE surfaceProperty(_, _, _, _)

\* the body loop of parseSurface; val is [properties, children]
surfaceLoop(toks, r, props, children) ==
  IF Failed(r) THEN r
  ELSE IF ~Defined(toks, r.pos) THEN TypeError
  ELSE IF peek(toks, r.pos).type \in {TT.RBRACE, TT.EOF}
    THEN Ok(r.pos, [properties |-> props, children |-> children])
  ELSE surfaceItem(toks, skipNewlines(toks, r), props, children)

\* the loop body after its skipNewlines sk: cur = tokens[sk.pos]
surfaceItem(toks, sk, props, children) ==
  IF Failed(sk) THEN sk
  ELSE IF peek(toks, sk.pos).type = TT.RBRACE
    THEN Ok(sk.pos, [properties |-> props, children |-> children])
  ELSE IF peek(toks, sk.pos).type = TT.KEYWORD /\ Join(peek(toks, sk.pos).value) = "surface"
    THEN surfaceChild(toks, parseSurface(toks, sk.pos), props, children)
  ELSE IF peek(toks, sk.pos).type = TT.KEYWORD /\ Join(peek(toks, sk.pos).value) = "text"
    THEN surfaceChild(toks, parseText(toks, sk.pos), props, children)
  ELSE IF peek(toks, sk.pos).type = TT.IDENT
    THEN surfaceProperty(toks, parseProperty(toks, sk.pos), props, children)
  ELSE surfaceLoop(toks, Ok(sk.pos + 1, <<>>), props, children)

\* children.push(ch); skipNewlines(); continue
surfaceChild(toks, ch, props, children) ==
  IF Failed(ch) THEN ch
  ELSE surfaceLoop(toks, skipNewlines(toks, ch), props, Append(children, ch.val))

\* if (prop) properties.push(prop); skipNewlines(); continue
surfaceProperty(toks, pr, props, children) ==
  IF Failed(pr) THEN pr
  ELSE surfaceLoop(toks, skipNewlines(toks, pr), pushNode(props, pr.val), children)

\* parseSurface from expect(RBRACE) on; nm is the name token, body the loop's result
surfaceEnd(toks, nm, body) ==
  Return(expect(toks, body, TT.RBRACE),
         [type |-> "Surface", name |-> nm.val.value,
          properties |-> body.val.properties, children |-> body.val.children])

\* parseSurface after the name nm
surfaceBody(toks, nm) ==
  surfaceEnd(toks, nm,
             surfaceLoop(toks,
                         skipNewlines(toks, expect(toks, skipNewlines(toks, nm), TT.LBRACE)),
                         <<>>, <<>>))

parseSurface(toks, pos) ==
  surfaceBody(toks, expect(toks, expect(toks, Ok(pos, <<>>), TT.KEYWORD), TT.IDENT))

\* parseStatement with a top-level text parsed into a node
parseStatementWithText(toks, pos) ==
  IF peek(toks, pos).type = TT.KEYWORD /\ Join(peek(toks, pos).value) = "surface"
    THEN parseSurface(toks, pos)
  ELSE IF peek(toks, pos).type = TT.KEYWORD /\ Join(peek(toks, pos).value) = "material"
    THEN parseMaterial(toks, pos)
  ELSE IF peek(toks, pos).type = TT.KEYWORD /\ Join(peek(toks, pos).value) = "text"
    THEN parseText(toks, pos)
  ELSE Ok(pos + 1, Null)

\* parseStatement, entered with tokens[pos] defined and not EOF
parseStatement(toks, pos) ==
  IF peek(toks, pos).type = TT.KEYWORD /\ Join(peek(toks, pos).value) = "surface"
    THEN parseSurface(toks, pos)
  ELSE IF peek(toks, pos).type = TT.KEYWORD /\ Join(peek(toks, pos).value) = "material"
    THEN parseMaterial(toks, pos)
  ELSE Ok(pos + 1, Null)

RECURSIVE programLoop(_, _, _)
RECURSIVE programNext(_, _, _)

\* the loop of parseProgram
programLoop(toks, r, body) ==
  IF Failed(r) THEN r
  ELSE IF ~Defined(toks, r.pos) THEN TypeError
  ELSE IF peek(toks, r.pos).type = TT.EOF THEN Ok(r.pos, [type |-> "Program", body |-> body])
  ELSE programNext(toks, parseStatement(toks, r.pos), body)

\* if (node) body.push(node); skipNewlines()
programNext(toks, st, body) ==
  IF Failed(st) THEN st
  ELSE programLoop(toks, skipNewlines(toks, st), pushNode(body, st.val))

parseProgram(toks) == programLoop(toks, skipNewlines(toks, Ok(0, <<>>)), <<>>)

\* parse(tokens)
parse(toks) == parseProgram(toks)

----------------------------------------------------------------------------
(* SECTION 3: COMPILER *)
(* A CSS object is a sequence of <<key, value>> pairs of strings, in the  *)
(* object's insertion order.                                              *)

HasKey(css, k) == \E n \in 1..Len(css) : css[n][1] = k

\* css[k] = v: the __proto__ setter ignores a string, an own key keeps its place
SetKey(css, k, v) ==
  IF k = "__proto__" THEN css
  ELSE IF HasKey(css, k)
    THEN [n \in 1..Len(css) |-> IF css[n][1] = k THEN <<k, v>> ELSE css[n]]
  ELSE Append(css, <<k, v>>)

\* Object.assign(css, resolved)
RECURSIVE ObjectAssign(_, _)
ObjectAssign(css, resolved) ==
  IF resolved = <<>> THEN css
  ELSE ObjectAssign(SetKey(css, Head(resolved)[1], Head(resolved)[2]), Tail(resolved))

DigitChars == <<"0","1","2","3","4","5","6","7","8","9">>

\* decimal text of a natural number
RECURSIVE NumChars(_)
NumChars(n) == IF n < 10 THEN <<DigitChars[n + 1]>>
               ELSE NumChars(n \div 10) \o <<DigitChars[(n % 10) + 1]>>

\* genId with the number of finished compile calls added to the counter
genIdPerCall(counter) == "lm" \o Join(NumChars(counter + Len(runs)))

\* genId(): the identifier for the counter value after the increment
genId(counter) == "lm" \o Join(NumChars(counter))

WordChar == Lower \cup Upper \cup Digit \cup {"_"}
LineTerminator == {"\n", "\r"}

\* args[k] (0-based), "undefined" when absent
Arg(args, k) == IF k < Len(args) THEN args[k + 1] ELSE <<"u","n","d","e","f","i","n","e","d">>

\* the argument splitter of parseFn: args after scanning inner
RECURSIVE SplitArgs(_, _, _, _)
SplitArgs(inner, args, depth, current) ==
  IF inner = <<>> THEN (IF Trim(current) # <<>> THEN Append(args, Trim(current)) ELSE args)
  ELSE IF Head(inner) = "("
    THEN SplitArgs(Tail(inner), args, depth + 1, Append(current, Head(inner)))
  ELSE IF Head(inner) = ")"
    THEN SplitArgs(Tail(inner), args, depth - 1, Append(current, Head(inner)))
  ELSE IF Head(inner) = "," /\ depth = 0
    THEN SplitArgs(Tail(inner), Append(args, Trim(current)), depth, <<>>)
  ELSE SplitArgs(Tail(inner), args, depth, Append(current, Head(inner)))

\* value matches /^([\w-]+)\((.+)\)$/, open being the index of its first "("
MatchesFn(value, open) ==
  /\ open >= 1 /\ open < Len(value)
  /\ \A k \in 0..(open - 1) : At(value, k) \in WordChar \cup {"-"}
  /\ Len(value) >= open + 3
  /\ At(value, Len(value) - 1) = ")"
  /\ \A k \in (open + 1)..(Len(value) - 2) : At(value, k) \notin LineTerminator

\* parseFn(value) with the index of the first "(" known
parseFnAt(value, open) ==
  IF ~MatchesFn(value, open) THEN [ok |-> FALSE, name |-> "", args |-> <<>>]
  ELSE [ok |-> TRUE, name |-> Join(Slice(value, 0, open)),
        args |-> SplitArgs(Slice(value, open + 1, Len(value) - 1), <<>>, 0, <<>>)]

\* parseFn(value): [ok, name, args]; ok is FALSE where the code returns null
parseFn(value) == parseFnAt(value, ScanTo(value, 0, {"("}))

HexDigits == <<"0","1","2","3","4","5","6","7","8","9","a","b","c","d","e","f">>
HexUpper  == <<"0","1","2","3","4","5","6","7","8","9","A","B","C","D","E","F">>

IsHex(c) == \E d \in 1..16 : HexDigits[d] = c \/ HexUpper[d] = c
HexVal(c) == (CHOOSE d \in 1..16 : HexDigits[d] = c \/ HexUpper[d] = c) - 1

\* parseInt(s, 16) of a slice of at most two characters, as text ("NaN" if no digit)
ParseHexPair(s) ==
  IF Len(s) >= 1 /\ IsHex(s[1])
    THEN IF Len(s) >= 2 /\ IsHex(s[2]) THEN NumChars(16 * HexVal(s[1]) + HexVal(s[2]))
         ELSE NumChars(HexVal(s[1]))
  ELSE <<"N", "a", "N">>

\* s with the character at index p removed, if there is one
DropAt(s, p) == IF p >= Len(s) THEN s ELSE Slice(s, 0, p) \o Slice(s, p + 1, Len(s))

\* hex.replace('#', ''): the first "#" removed
DropFirstHash(s) == DropAt(s, ScanTo(s, 0, {"#"}))

\* ExpandHex without the doubling
ExpandHexNot(h) == h

\* three characters doubled to six
ExpandHex(h) == IF Len(h) = 3 THEN <<h[1], h[1], h[2], h[2], h[3], h[3]>> ELSE h

\* the rgba() text for the six (or fewer) characters h
RgbaText(h, alpha) ==
  "rgba(" \o Join(ParseHexPair(Slice(h, 0, 2))) \o ", "
          \o Join(ParseHexPair(Slice(h, 2, 4))) \o ", "
          \o Join(ParseHexPair(Slice(h, 4, 6))) \o ", " \o alpha \o ")"

\* hexToRgba(hex, alpha), alpha already text
hexToRgba(hex, alpha) == RgbaText(ExpandHex(DropFirstHash(hex)), alpha)

\* colors.join(', ')
RECURSIVE JoinComma(_)
JoinComma(args) ==
  IF args = <<>> THEN ""
  ELSE IF Len(args) = 1 THEN Join(args[1])
  ELSE Join(args[1]) \o ", " \o JoinComma(Tail(args))

\* trailing zeros of a fraction, leading zeros of an integer part, dropped
RECURSIVE StripZeros(_)
StripZeros(x) ==
  IF x # <<>> /\ x[Len(x)] = "0" THEN StripZeros(SubSeq(x, 1, Len(x) - 1)) ELSE x
RECURSIVE LeadZeros(_)
LeadZeros(x) == IF Len(x) > 1 /\ x[1] = "0" THEN LeadZeros(Tail(x)) ELSE x

\* the number text for integer digits ip and fraction digits fp0
FloatText(ip, fp0) ==
  IF ip = <<>> /\ fp0 = <<>> THEN "NaN"
  ELSE IF StripZeros(fp0) = <<>> THEN Join(LeadZeros(ip))
  ELSE Join(IF ip = <<>> THEN <<"0">> ELSE LeadZeros(ip)) \o "." \o Join(StripZeros(fp0))

\* the digits of t after a "." at index iEnd
FractionDigits(t, iEnd) ==
  IF At(t, iEnd) = "." THEN Slice(t, iEnd + 1, ScanPast(t, iEnd + 1, Digit)) ELSE <<>>

FloatAt(t, iEnd) == FloatText(Slice(t, 0, iEnd), FractionDigits(t, iEnd))

\* String(parseFloat(s)) for the decimal forms d+, d+.d*, .d+ ("NaN" otherwise);
\* trailing characters after the number are ignored as parseFloat ignores them
ParseFloatText(s) == FloatAt(TrimLeft(s), ScanPast(TrimLeft(s), 0, Digit))

\* the data URL of the noise image, abbreviated
NoiseImage == "url(noise.svg)"

\* a || fallback for an argument that may be absent or empty
ArgOr(args, k, fallback) ==
  IF Len(args) > k /\ args[k + 1] # <<>> THEN args[k + 1] ELSE fallback

\* case 'glass' with gColor and gOpacity known
glassFill(gColor, gOpacity) ==
  << <<"background", IF Head(gColor) = "#" THEN hexToRgba(gColor, gOpacity) ELSE Join(gColor)>>,
     <<"backdrop-filter", "blur(12px)">>,
     <<"-webkit-backdrop-filter", "blur(12px)">> >>

\* the switch of resolveMaterialValue on fn = parseFn(value)
materialFill(value, fn) ==
  IF ~fn.ok THEN << <<"background", Join(value)>> >>
  ELSE CASE fn.name = "solid" -> << <<"background", Join(Arg(fn.args, 0))>> >>
         [] fn.name = "gradient" ->
              << <<"background",
                   "linear-gradient("
                     \o (IF Len(fn.args) = 2 THEN "135deg" ELSE Join(Arg(fn.args, 0)))
                     \o ", "
                     \o JoinComma(IF Len(fn.args) = 2 THEN fn.args
                                  ELSE IF fn.args = <<>> THEN <<>> ELSE Tail(fn.args))
                     \o ")">> >>
         [] fn.name = "radial" ->
              << <<"background", "radial-gradient(circle, " \o JoinComma(fn.args) \o ")">> >>
         [] fn.name = "glass" ->
              glassFill(ArgOr(fn.args, 0, <<"#","f","f","f","f","f","f">>),
                        ParseFloatText(ArgOr(fn.args, 1, <<"0", ".", "1">>)))
         [] fn.name = "noise" ->
              << <<"background", Join(ArgOr(fn.args, 0, <<"#","1","a","1","a","2","e">>))>>,
                 <<"background-image", NoiseImage>> >>
         [] OTHER -> << <<"background", Join(value)>> >>

\* resolveMaterialValue(value)
resolveMaterialValue(value) == materialFill(value, parseFn(value))

----------------------------------------------------------------------------
(* Property resolution.  A resolver returns [err, css]: err is "none",    *)
(* "TypeError" (forEach read from a value that is no Material node) or    *)
(* "RangeError" (the call stack overflows on unbounded recursion).        *)

Resolved(css) == [err |-> "none", css |-> css]
Raise(kind)   == [err |-> kind, css |-> <<>>]

\* Object.assign(css, resolved) where either side may have thrown
Assign(acc, resolved) ==
  IF acc.err # "none" THEN acc
  ELSE IF resolved.err # "none" THEN resolved
  ELSE Resolved(ObjectAssign(acc.css, resolved.css))

Inherited == [type |-> "inherited"]
Undefined == [type |-> "undefined"]

\* materialMap[value]: an own entry, else what {} inherits, else undefined
Lookup(materialMap, name) ==
  IF name \in DOMAIN materialMap THEN materialMap[name]
  ELSE IF name \in ObjectPrototypeKeys THEN Inherited
  ELSE Undefined

\* table[value] || value for the align / justify keyword tables
Translate(table, v) ==
  IF v \in DOMAIN table THEN table[v]
  ELSE IF v \in ObjectPrototypeKeys THEN "[inherited]"
  ELSE v

aMap == [start |-> "flex-start", end |-> "flex-end"]
jMap == [start |-> "flex-start", end |-> "flex-end", between |-> "space-between",
         around |-> "space-around", evenly |-> "space-evenly"]

\* keys that map to one declaration whose value is the property's value
Renamed ==
  [radius |-> "border-radius", shadow |-> "box-shadow", layer |-> "z-index"]

\* value.split(/\s+/)[0]
FirstPart(value) == Slice(value, 0, ScanTo(value, 0, WhiteSpace))

\* dimension with fill written out as any other value
dimensionLiteral(side, v) == << <<side, v>> >>

\* the cases width and height of resolveSurfaceProp: fill grows in the parent's
\* flex direction, any other value is the declared size
dimension(side, v) ==
  IF v = "fill" THEN << <<"flex", "1">>, <<"min-" \o side, "0">> >>
  ELSE << <<side, v>> >>

RECURSIVE resolveSurfaceProp(_, _, _, _)
RECURSIVE resolveMaterialNode(_, _, _)
RECURSIVE materialProps(_, _, _, _)
RECURSIVE materialProp(_, _, _)

\* resolveSurfaceProp(key, value, materialMap); stack holds the names of the
\* materials whose resolveMaterialNode calls are on the call stack
resolveSurfaceProp(key, value, materialMap, stack) ==
  LET k == Join(key)
      v == Join(value)
  IN
  CASE k = "width" -> Resolved(dimension("width", v))
    [] k = "height" -> Resolved(dimension("height", v))
    [] k = "material" ->
         IF Lookup(materialMap, v).type # "undefined"
           THEN resolveMaterialNode(Lookup(materialMap, v), materialMap, stack)
         ELSE Resolved(resolveMaterialValue(value))
    [] k = "use" ->
         IF Lookup(materialMap, v).type # "undefined"
           THEN resolveMaterialNode(Lookup(materialMap, v), materialMap, stack)
         ELSE Resolved(<<>>)
    [] k = "layout" ->
         Resolved(<< <<"display", "flex">>,
                     <<"flex-direction",
                       IF Join(FirstPart(value)) = "row" THEN "row" ELSE "column">> >>)
    [] k = "wrap" -> Resolved(<< <<"flex-wrap", IF v = "true" THEN "wrap" ELSE "nowrap">> >>)
    [] k = "align" -> Resolved(<< <<"align-items", Translate(aMap, v)>> >>)
    [] k = "justify" -> Resolved(<< <<"justify-content", Translate(jMap, v)>> >>)
    [] k \in DOMAIN Renamed -> Resolved(<< <<Renamed[k], v>> >>)
    [] OTHER -> Resolved(<< <<k, v>> >>)

\* the forEach of resolveMaterialNode over the remaining node.properties,
\* css being what the properties before them have given
materialProps(props, css, materialMap, stack) ==
  IF props = <<>> \/ css.err # "none" THEN css
  ELSE materialProps(Tail(props),
                     Assign(css, materialProp(Head(props), materialMap, stack)),
                     materialMap, stack)

\* materialProp with color resolved as any other key
materialPropNoColor(prop, materialMap, stack) ==
  resolveSurfaceProp(prop.key, prop.value, materialMap, stack)

\* the body of the forEach of resolveMaterialNode: color means background
materialProp(prop, materialMap, stack) ==
  IF Join(prop.key) = "color" THEN Resolved(<< <<"background", Join(prop.value)>> >>)
  ELSE resolveSurfaceProp(prop.key, prop.value, materialMap, stack)

resolveMaterialNode(node, materialMap, stack) ==
  IF node.type # "Material" THEN Raise("TypeError")
  ELSE IF Join(node.name) \in stack THEN Raise("RangeError")
  ELSE materialProps(node.properties, Resolved(<<>>), materialMap,
                     stack \cup {Join(node.name)})

TextRenamed ==
  [font |-> "font-family", size |-> "font-size", color |-> "color",
   weight |-> "font-weight", align |-> "text-align", spacing |-> "letter-spacing",
   height |-> "line-height", style |-> "font-style", transform |-> "text-transform",
   decoration |-> "text-decoration", padding |-> "padding"]

\* resolveTextProp with color read as a fill
resolveTextPropColorAsFill(key, value) ==
  IF Join(key) = "color" THEN << <<"background", Join(value)>> >>
  ELSE IF Join(key) = "wrap"
    THEN << <<"white-space", IF Join(value) = "false" THEN "nowrap" ELSE "normal">> >>
  ELSE IF Join(key) \in DOMAIN TextRenamed THEN << <<TextRenamed[Join(key)], Join(value)>> >>
  ELSE << <<Join(key), Join(value)>> >>

\* resolveTextProp(key, value)
resolveTextProp(key, value) ==
  LET k == Join(key)
      v == Join(value)
  IN  IF k = "wrap" THEN << <<"white-space", IF v = "false" THEN "nowrap" ELSE "normal">> >>
      ELSE IF k \in DOMAIN TextRenamed THEN << <<TextRenamed[k], v>> >>
      ELSE << <<k, v>> >>

RECURSIVE cssObjectToString(_)
cssObjectToString(obj) ==
  IF obj = <<>> THEN ""
  ELSE IF Len(obj) = 1 THEN obj[1][1] \o ": " \o obj[1][2]
  ELSE obj[1][1] \o ": " \o obj[1][2] \o "; " \o cssObjectToString(Tail(obj))

RECURSIVE escapeHTML(_)
escapeHTML(str) ==
  IF str = <<>> THEN ""
  ELSE (CASE Head(str) = "&" -> "&amp;"
          [] Head(str) = "<" -> "&lt;"
          [] Head(str) = ">" -> "&gt;"
          [] Head(str) = "\"" -> "&quot;"
          [] OTHER -> Head(str)) \o escapeHTML(Tail(str))

----------------------------------------------------------------------------
(* Tree compilation.  compileSurface / compileText return                  *)
(* [err, counter, css, html]: css is the sequence of rule blocks that the  *)
(* code joins with "\n", html the element.  counter is _idCounter after    *)
(* the call, also when the call throws.                                    *)

Rule(id, decls) ==
  [id |-> id, decls |-> decls,
   text |-> "#" \o id \o " { " \o cssObjectToString(decls) \o " }"]

Compiled(counter, css, html) ==
  [err |-> "none", counter |-> counter, css |-> css, html |-> html]

\* the declarations every container and every text node starts with
SurfaceBaseline == << <<"box-sizing", "border-box">>, <<"position", "relative">> >>
TextBaseline    == << <<"box-sizing", "border-box">>, <<"margin", "0">> >>

\* childCSSBlocks.push(r.css); childHTML.push(r.html), unless the call threw
pushResult(acc, r) ==
  IF r.err # "none" THEN r
  ELSE Compiled(r.counter, acc.css \o r.css, Append(acc.html, r.html))

\* the forEach of compileSurface over the remaining node.properties,
\* css being what the baseline and the properties before them have given
RECURSIVE surfaceProps(_, _, _)
surfaceProps(props, css, materialMap) ==
  IF props = <<>> \/ css.err # "none" THEN css
  ELSE surfaceProps(Tail(props),
                    Assign(css, resolveSurfaceProp(Head(props).key, Head(props).value,
                                                   materialMap, {})),
                    materialMap)

\* the forEach of compileText over the remaining node.properties
RECURSIVE textProps(_, _)
textProps(props, css) ==
  IF props = <<>> THEN css
  ELSE textProps(Tail(props),
                 ObjectAssign(css, resolveTextProp(Head(props).key, Head(props).value)))

compileText(node, counter) ==
  Compiled(counter + 1,
           <<Rule(genId(counter + 1), textProps(node.properties, TextBaseline))>>,
           [tag |-> "p", id |-> genId(counter + 1), class |-> "lumen-text",
            content |-> escapeHTML(node.content)])

\* surfaceBlocks with the children's rules put before the container's own
surfaceBlocksChildrenFirst(cssBlock, childCSSBlocks) == childCSSBlocks \o <<cssBlock>>

\* [cssBlock].concat(childCSSBlocks)
surfaceBlocks(cssBlock, childCSSBlocks) == <<cssBlock>> \o childCSSBlocks

RECURSIVE compileSurface(_, _, _)
RECURSIVE surfaceElement(_, _, _, _)
RECURSIVE compileChildren(_, _, _)

\* the forEach over the remaining node.children; acc holds _idCounter,
\* childCSSBlocks and childHTML so far
compileChildren(children, materialMap, acc) ==
  IF children = <<>> \/ acc.err # "none" THEN acc
  ELSE IF Head(children).type = "Surface"
    THEN compileChildren(Tail(children), materialMap,
                         pushResult(acc, compileSurface(Head(children), materialMap,
                                                        acc.counter)))
  ELSE IF Head(children).type = "Text"
    THEN compileChildren(Tail(children), materialMap,
                         pushResult(acc, compileText(Head(children), acc.counter)))
  ELSE compileChildren(Tail(children), materialMap, acc)

\* cssBlock, allCSS and html of compileSurface, kids being the children's result
surfaceResult(node, id, decls, kids) ==
  IF kids.err # "none" THEN kids
  ELSE Compiled(kids.counter,
                surfaceBlocks(Rule(id, decls), kids.css),
                [tag |-> "div", id |-> id, class |-> "lumen-surface",
                 name |-> escapeHTML(node.name), children |-> kids.html])

\* compileSurface after genId() gave counter and the property forEach gave css
surfaceElement(node, materialMap, counter, css) ==
  IF css.err # "none"
    THEN [err |-> css.err, counter |-> counter, css |-> <<>>, html |-> <<>>]
  ELSE surfaceResult(node, genId(counter), css.css,
                     compileChildren(node.children, materialMap,
                                     Compiled(counter, <<>>, <<>>)))

compileSurface(node, materialMap, counter) ==
  surfaceElement(node, materialMap, counter + 1,
                 surfaceProps(node.properties, Resolved(SurfaceBaseline), materialMap))

\* materialMap[node.name] = node, with the first node of a name kept
setMaterialKeepFirst(materialMap, node) ==
  IF Join(node.name) \in DOMAIN materialMap THEN materialMap
  ELSE [k \in DOMAIN materialMap \cup {Join(node.name)} |->
          IF k = Join(node.name) THEN node ELSE materialMap[k]]

\* materialMap[node.name] = node
setMaterial(materialMap, node) ==
  [k \in DOMAIN materialMap \cup {Join(node.name)} |->
     IF k = Join(node.name) THEN node ELSE materialMap[k]]

\* the forEach of pass 1 over the remaining top-level nodes
RECURSIVE materialMapLoop(_, _)
materialMapLoop(body, materialMap) ==
  IF body = <<>> THEN materialMap
  ELSE IF Head(body).type = "Material"
    THEN materialMapLoop(Tail(body), setMaterial(materialMap, Head(body)))
  ELSE materialMapLoop(Tail(body), materialMap)

\* Pass 1 of compile: the table of named styles, starting from {}
buildMaterialMap(body) == materialMapLoop(body, <<>>)

\* Pass 2 of compile over the remaining top-level nodes; acc holds _idCounter,
\* cssBlocks and htmlBlocks so far
RECURSIVE compileBody(_, _, _)
compileBody(body, materialMap, acc) ==
  IF body = <<>> \/ acc.err # "none" THEN acc
  ELSE IF Head(body).type = "Surface"
    THEN compileBody(Tail(body), materialMap,
                     pushResult(acc, compileSurface(Head(body), materialMap, acc.counter)))
  ELSE compileBody(Tail(body), materialMap, acc)

\* compile with _idCounter set back to 0 on entry
compileFromZero(prog, counter) ==
  compileBody(prog.body, buildMaterialMap(prog.body), Compiled(0, <<>>, <<>>))

\* compile(ast), run with _idCounter = counter
compile(prog, counter) ==
  compileBody(prog.body, buildMaterialMap(prog.body), Compiled(counter, <<>>, <<>>))

----------------------------------------------------------------------------
(* The state machine: one source unit at a time goes through tokenize     *)
(* (one action per loop iteration), parse and compile, as in              *)
(* processScript; LUMEN.compile is also entered directly with a tree.     *)

\* a document without style element, mount containers and script elements
NoDocument ==
  [styles |-> [exists |-> FALSE, text |-> <<>>], mounts |-> <<>>, script |-> 0]

NoResult == [err |-> "none"]

\* one iteration of the while loop of tokenize
LexStep ==
  /\ pc = "lex"
  /\ i < Len(src)
  /\ LET st == TokStep(src, [i |-> i, afterColon |-> afterColon, tokens |-> tokens])
     IN  /\ i' = st.i
         /\ afterColon' = st.afterColon
         /\ tokens' = st.tokens
  /\ UNCHANGED <<input, pc, src, ast, output, idCounter, epoch, runs, host>>

\* the loop exit of tokenize: the EOF token, and the return
LexEnd ==
  /\ pc = "lex"
  /\ i >= Len(src)
  /\ tokens' = Append(tokens, Tok(TT.EOF, <<>>))
  /\ pc' = "parse"
  /\ UNCHANGED <<input, src, i, afterColon, ast, output, idCounter, epoch, runs, host>>

\* parse(tokens); a throw ends the unit
Parse ==
  /\ pc = "parse"
  /\ ast' = parse(tokens)
  /\ pc' = IF ast'.err = "none" THEN "compile" ELSE "failed"
  /\ UNCHANGED <<input, src, i, afterColon, tokens, output, idCounter, epoch, runs, host>>

\* compile(ast); genId has advanced _idCounter also when compile throws
Compile ==
  /\ pc = "compile"
  /\ LET r == compile(ast.val, idCounter) IN
       /\ output' = r
       /\ idCounter' = r.counter
       /\ runs' = Append(runs, [epoch |-> epoch, src |-> src, prog |-> ast.val,
                                start |-> idCounter, out |-> r])
       /\ pc' = IF r.err = "none" THEN "done" ELSE "failed"
  /\ UNCHANGED <<input, src, i, afterColon, tokens, ast, epoch, host>>

----------------------------------------------------------------------------
(* Tokenizer alone, on every text over a small alphabet *)

MaxSrcLen == 4

LexAlphabet == {"a", ":", "\n", "\r", " ", "/", "*", "\"", "{", "#"}

RECURSIVE SeqsUpTo(_, _)
SeqsUpTo(S, n) ==
  IF n = 0 THEN {<<>>}
  ELSE LET shorter == SeqsUpTo(S, n - 1)
       IN  shorter \cup {Append(t, x) : t \in {u \in shorter : Len(u) = n - 1}, x \in S}

LexSources == SeqsUpTo(LexAlphabet, MaxSrcLen)

InitLex ==
  /\ src \in LexSources
  /\ input = [kind |-> "text"]
  /\ pc = "lex"
  /\ i = 0
  /\ afterColon = FALSE
  /\ tokens = <<>>
  /\ ast = NoResult
  /\ output = NoResult
  /\ idCounter = 0
  /\ epoch = 0
  /\ runs = <<>>
  /\ host = NoDocument

NextLex == LexStep \/ LexEnd

SpecLex == InitLex /\ [][NextLex]_vars

\* the loop state as TokStep takes it
LexState == [i |-> i, afterColon |-> afterColon, tokens |-> tokens]

\* what is left for the loop to do in loop state st
Measure(st) == 2 * (Len(src) - st.i) + (IF st.afterColon THEN 1 ELSE 0)

IsEOF(tok) == tok.type = TT.EOF

\* C10: tokenize terminates without raising: every loop iteration advances the
\* read index or leaves value-capture mode (so a measure that is positive inside
\* the loop strictly decreases); a character that starts no token is dropped
\* without a token being pushed; and the returned sequence ends with an EOF
\* token that appears nowhere else.
C10_TokenizeTerminates ==
  /\ (pc = "lex" /\ i < Len(src)) =>
       LET st == TokStep(src, LexState) IN
         /\ st.i > i \/ (afterColon /\ ~st.afterColon /\ st.i = i)
         /\ Measure(LexState) >= 1
         /\ Measure(st) < Measure(LexState)
         /\ TokBranch(src, LexState) = "unknown" => (st.tokens = tokens /\ st.i = i + 1)
  /\ pc = "lex" => \A n \in 1..Len(tokens) : ~IsEOF(tokens[n])
  /\ pc = "parse" => /\ tokens # <<>>
                     /\ IsEOF(tokens[Len(tokens)])
                     /\ \A n \in 1..(Len(tokens) - 1) : ~IsEOF(tokens[n])
                     /\ tokens = tokenize(src)

\* a text with a colon directly followed by a line comment and with a character
\* that starts no token has been tokenized to its end
C10_Witness ==
  /\ pc = "parse"
  /\ \E n \in 1..(Len(src) - 2) : src[n] = ":" /\ src[n + 1] = "/" /\ src[n + 2] = "/"
  /\ \E n \in 1..Len(src) : src[n] = "#"
  /\ tokens = <<Tok(TT.COLON, <<>>), Tok(TT.EOF, <<>>)>>

\* the number of positions of sequence s whose element satisfies Test
CountOf(s, Test(_)) == Cardinality({n \in 1..Len(s) : Test(s[n])})

IsLineBreak(ch) == ch \in LineTerminator

IsNewlineToken(tok) == tok.type = TT.NEWLINE

\* C19: every line-break character of the input, wherever it occurs, emits a
\* line-break token and leaves the lexer outside value-capture mode: the
\* returned sequence holds one NEWLINE token per line-break character of the
\* source, and the loop is never in value-capture mode just after a line break.
C19_LineBreakEmitsToken ==
  /\ pc = "parse" => CountOf(tokens, IsNewlineToken) = CountOf(src, IsLineBreak)
  /\ (pc = "lex" /\ i \in 1..Len(src) /\ IsLineBreak(src[i])) => ~afterColon

\* a line comment followed by a carriage return and a word: the comment loop
\* runs over the carriage return and the word, and only EOF is returned
C19_FailingInput ==
  /\ pc = "parse"
  /\ src = <<"/", "/", "\r", "a">>
  /\ tokens = <<Tok(TT.EOF, <<>>)>>

----------------------------------------------------------------------------
(* LUMEN.compile alone, on trees built from small pools *)

Prop(key, value) == [type |-> "Property", key |-> key, value |-> value]
Material(name, props) == [type |-> "Material", name |-> name, properties |-> props]
Surface(name, props, children) ==
  [type |-> "Surface", name |-> name, properties |-> props, children |-> children]
Text(content, props) == [type |-> "Text", content |-> content, properties |-> props]
Program(body) == [type |-> "Program", body |-> body]

MaxProps == 2
MaxDepth == 2

\* container properties: sizes, overrides of one declaration key, references to
\* the defined style m, to undefined names, and fill values
SurfacePropPool ==
  {Prop(<<"w", "i", "d", "t", "h">>, <<"f", "i", "l", "l">>), Prop(<<"f", "l", "e", "x">>, <<"2">>),
   Prop(<<"r", "a", "d", "i", "u", "s">>, <<"2", "p", "x">>),
   Prop(<<"b", "o", "r", "d", "e", "r", "-", "r", "a", "d", "i", "u", "s">>, <<"3", "p", "x">>), Prop(<<"p", "o", "s", "i", "t", "i", "o", "n">>, <<"a", "b", "s", "o", "l", "u", "t", "e">>),
   Prop(<<"u", "s", "e">>, <<"m">>), Prop(<<"u", "s", "e">>, <<"z", "z">>),
   Prop(<<"u", "s", "e">>, <<"c", "o", "n", "s", "t", "r", "u", "c", "t", "o", "r">>), Prop(<<"m", "a", "t", "e", "r", "i", "a", "l">>, <<"m">>),
   Prop(<<"m", "a", "t", "e", "r", "i", "a", "l">>, <<"z", "z">>), Prop(<<"m", "a", "t", "e", "r", "i", "a", "l">>, <<"s", "o", "l", "i", "d", "(", "#", "1", "1", "1", ")">>),
   Prop(<<"b", "a", "c", "k", "g", "r", "o", "u", "n", "d">>, <<"r", "e", "d">>), Prop(<<"_", "_", "p", "r", "o", "t", "o", "_", "_">>, <<"x">>)}

\* text properties
TextPropPool ==
  {Prop(<<"c", "o", "l", "o", "r">>, <<"r", "e", "d">>), Prop(<<"s", "i", "z", "e">>, <<"1", "p", "x">>),
   Prop(<<"f", "o", "n", "t", "-", "s", "i", "z", "e">>, <<"2", "p", "x">>), Prop(<<"m", "a", "r", "g", "i", "n">>, <<"4", "p", "x">>),
   Prop(<<"w", "r", "a", "p">>, <<"f", "a", "l", "s", "e">>), Prop(<<"_", "_", "p", "r", "o", "t", "o", "_", "_">>, <<"x">>)}

\* property lists of the named style m
MaterialVariants ==
  {<<>>,
   <<Prop(<<"c", "o", "l", "o", "r">>, <<"#", "1", "1", "1">>)>>,
   <<Prop(<<"r", "a", "d", "i", "u", "s">>, <<"4", "p", "x">>), Prop(<<"c", "o", "l", "o", "r">>, <<"#", "1", "1", "1">>)>>,
   <<Prop(<<"c", "o", "l", "o", "r">>, <<"#", "1", "1", "1">>), Prop(<<"b", "a", "c", "k", "g", "r", "o", "u", "n", "d">>, <<"b", "l", "u", "e">>)>>,
   <<Prop(<<"w", "i", "d", "t", "h">>, <<"f", "i", "l", "l">>), Prop(<<"u", "s", "e">>, <<"n">>)>>,
   <<Prop(<<"u", "s", "e">>, <<"n">>), Prop(<<"c", "o", "l", "o", "r">>, <<"#", "1", "1", "1">>)>>,
   <<Prop(<<"_", "_", "p", "r", "o", "t", "o", "_", "_">>, <<"x">>), Prop(<<"u", "s", "e">>, <<"c", "o", "n", "s", "t", "r", "u", "c", "t", "o", "r">>)>>,
   <<Prop(<<"r", "a", "d", "i", "u", "s">>, <<"4", "p", "x">>), Prop(<<"u", "s", "e">>, <<"m">>)>>}

StyleN == Material(<<"n">>, <<Prop(<<"c", "o", "l", "o", "r">>, <<"#", "2", "2", "2">>), Prop(<<"r", "a", "d", "i", "u", "s">>, <<"9", "p", "x">>)>>)

\* a container s with its own properties, with the styles m and n defined
StylePrograms ==
  {Program(<<Material(<<"m">>, mp), StyleN, Surface(<<"s">>, sp, <<>>)>>) :
     mp \in MaterialVariants, sp \in SeqsUpTo(SurfacePropPool, MaxProps)}

\* a container holding one text node with its own properties
TextPrograms ==
  {Program(<<Surface(<<"s">>, <<>>, <<Text(<<"a", "<", "b">>, tp)>>)>>) :
     tp \in SeqsUpTo(TextPropPool, MaxProps)}

\* containers nested to depth d: a nested container alone, or beside a text
\* node or a childless container
RECURSIVE Trees(_)
Trees(d) ==
  IF d = 0 THEN {Surface(<<"a">>, <<>>, <<>>)}
  ELSE LET leaf == Surface(<<"b">>, <<>>, <<>>)
           txt  == Text(<<"t">>, <<>>)
       IN  {Surface(<<"a">>, <<>>, <<>>)}
             \cup UNION {{Surface(<<"a">>, <<>>, <<sub>>),
                          Surface(<<"a">>, <<>>, <<txt, sub>>),
                          Surface(<<"a">>, <<>>, <<sub, txt>>),
                          Surface(<<"a">>, <<>>, <<sub, leaf>>),
                          Surface(<<"a">>, <<>>, <<leaf, sub, txt>>)} : sub \in Trees(d - 1)}

\* a chain of containers nested to depth d
RECURSIVE Chain(_)
Chain(d) == Surface(<<"a">>, <<>>, IF d = 0 THEN <<>> ELSE <<Chain(d - 1)>>)

TreePrograms ==
  {Program(<<t>>) : t \in Trees(MaxDepth)}
    \cup {Program(<<t, Material(<<"m">>, <<>>), Chain(1)>>) : t \in Trees(MaxDepth)}

MaxNodes == 3

\* top-level nodes in any order: two definitions of the style m, and containers
\* that refer to m
OrderNodes ==
  {Material(<<"m">>, <<Prop(<<"c", "o", "l", "o", "r">>, <<"#", "1", "1", "1">>)>>),
   Material(<<"m">>, <<Prop(<<"r", "a", "d", "i", "u", "s">>, <<"4", "p", "x">>)>>),
   Surface(<<"s">>, <<Prop(<<"u", "s", "e">>, <<"m">>)>>, <<>>),
   Surface(<<"t">>, <<Prop(<<"m", "a", "t", "e", "r", "i", "a", "l">>, <<"m">>), Prop(<<"w", "i", "d", "t", "h">>, <<"9", "p", "x">>)>>, <<>>)}

OrderPrograms == {Program(body) : body \in SeqsUpTo(OrderNodes, MaxNodes)}

\* the style panel with color: #111827, applied by a container that holds a
\* text node with or without a color of its own
ColorPrograms ==
  {Program(<<Material(<<"p", "a", "n", "e", "l">>, <<Prop(<<"c", "o", "l", "o", "r">>, <<"#", "1", "1", "1", "8", "2", "7">>)>>),
             Surface(<<"s">>, <<ref>>, <<Text(<<"t">>, tp)>>)>>) :
     ref \in {Prop(<<"u", "s", "e">>, <<"p", "a", "n", "e", "l">>), Prop(<<"m", "a", "t", "e", "r", "i", "a", "l">>, <<"p", "a", "n", "e", "l">>)},
     tp \in {<<>>, <<Prop(<<"c", "o", "l", "o", "r">>, <<"r", "e", "d">>)>>}}

\* sizes of a container: fill, and values that are not fill
SizePropPool ==
  {Prop(<<"w", "i", "d", "t", "h">>, <<"f", "i", "l", "l">>), Prop(<<"w", "i", "d", "t", "h">>, <<"3", "2", "0", "p", "x">>), Prop(<<"w", "i", "d", "t", "h">>, <<"F", "i", "l", "l">>),
   Prop(<<"h", "e", "i", "g", "h", "t">>, <<"f", "i", "l", "l">>), Prop(<<"h", "e", "i", "g", "h", "t">>, <<"5", "0", "%">>), Prop(<<"h", "e", "i", "g", "h", "t">>, <<"f", "i", "l", "l", "e", "d">>)}

SizePrograms ==
  {Program(<<Surface(<<"s">>, sp, <<>>)>>) : sp \in SeqsUpTo(SizePropPool, MaxProps)}

\* hex digits and digit pairs with their values, and opacities with the text
\* of their number
HexDigitPool ==
  {[text |-> <<"0">>, value |-> 0], [text |-> <<"9">>, value |-> 9],
   [text |-> <<"a">>, value |-> 10], [text |-> <<"c">>, value |-> 12],
   [text |-> <<"F">>, value |-> 15]}

HexPairPool ==
  {[text |-> <<"0", "0">>, value |-> 0], [text |-> <<"0", "9">>, value |-> 9],
   [text |-> <<"1", "a">>, value |-> 26], [text |-> <<"C", "8">>, value |-> 200],
   [text |-> <<"f", "F">>, value |-> 255]}

OpacityPool ==
  {[text |-> <<"0", ".", "5">>, number |-> "0.5"],
   [text |-> <<".", "2", "5">>, number |-> "0.25"],
   [text |-> <<"1", ".", "0">>, number |-> "1"]}

\* colors that do not start with #
PlainColorPool == {<<"r", "e", "d">>, <<"r", "g", "b", "(", "1", ",", " ", "2", ",", " ", "3", ")">>}

\* glass(<color>, <opacity>)
GlassValue(color, opacity) ==
  <<"g", "l", "a", "s", "s", "(">> \o color \o <<",", " ">> \o opacity \o <<")">>

\* # followed by three digits or three digit pairs
HexColor(x, y, z) == <<"#">> \o x.text \o y.text \o z.text

GlassColors ==
  {HexColor(x, y, z) : x, y, z \in HexDigitPool}
    \cup {HexColor(x, y, z) : x, y, z \in HexPairPool}
    \cup PlainColorPool

\* a container filled with glass
GlassPrograms ==
  {Program(<<Surface(<<"s">>, <<Prop(<<"m", "a", "t", "e", "r", "i", "a", "l">>, GlassValue(c, o.text))>>, <<>>)>>) :
     c \in GlassColors, o \in OpacityPool}

CompilePrograms == StylePrograms \cup TextPrograms \cup TreePrograms \cup OrderPrograms
                     \cup ColorPrograms \cup SizePrograms
                     \cup GlassPrograms

\* values of _idCounter when compile is entered
StartCounters == {0, 7}

InitCompile ==
  /\ \E prog \in CompilePrograms :
       /\ input = [kind |-> "tree", prog |-> prog]
       /\ ast = Ok(0, prog)
  /\ idCounter \in StartCounters
  /\ pc = "compile"
  /\ src = <<>>
  /\ i = 0
  /\ afterColon = FALSE
  /\ tokens = <<>>
  /\ output = NoResult
  /\ epoch = 0
  /\ runs = <<>>
  /\ host = NoDocument

NextCompile == Compile

SpecCompile == InitCompile /\ [][NextCompile]_vars

----------------------------------------------------------------------------
(* Properties of compile *)

Finished == pc \in {"done", "failed"} /\ runs # <<>>

\* the compile call that has just finished
LastRun == runs[Len(runs)]

FirstSurfaceAt(prog) == Min({n \in 1..Len(prog.body) : prog.body[n].type = "Surface"})
HasSurface(prog) == \E n \in 1..Len(prog.body) : prog.body[n].type = "Surface"
FirstSurface(prog) == prog.body[FirstSurfaceAt(prog)]

\* prog with the properties of its first top-level container replaced
WithProps(prog, props) ==
  Program([prog.body EXCEPT ![FirstSurfaceAt(prog)].properties = props])

Range(seq) == {seq[n] : n \in 1..Len(seq)}

\* what a compile call shows of the first top-level container: whether it threw,
\* and the declaration set of the container's rule
Outcome(out) ==
  [err |-> out.err, decls |-> IF out.err = "none" THEN Range(out.css[1].decls) ELSE {}]

Without(props, k) == SubSeq(props, 1, k - 1) \o SubSeq(props, k + 1, Len(props))
Replaced(props, k, by) == SubSeq(props, 1, k - 1) \o by \o SubSeq(props, k + 1, Len(props))

PlainName(v) ==
  /\ v # <<>>
  /\ Head(v) \in IdentStart
  /\ \A n \in 1..Len(v) : v[n] \in IdentChar

\* C3: a container property that references a named style (key use, or key
\* material with a plain name as value) of which the style table has no
\* definition contributes no declarations and compile does not raise: the call
\* ends as it does with the property left out.
C3_UnresolvedContributesNothing ==
  (Finished /\ HasSurface(LastRun.prog)) =>
    LET prog  == LastRun.prog
        props == FirstSurface(prog).properties
        mm    == buildMaterialMap(prog.body)
    IN  \A k \in 1..Len(props) :
          (/\ Join(props[k].key) \in {"use", "material"}
           /\ PlainName(props[k].value)
           /\ Join(props[k].value) \notin DOMAIN mm)
          => Outcome(LastRun.out)
               = Outcome(compile(WithProps(prog, Without(props, k)), LastRun.start))

\* a container whose only property is use: constructor has been compiled: the
\* call threw a TypeError
C3_FailingInput ==
  /\ Finished /\ HasSurface(LastRun.prog)
  /\ FirstSurface(LastRun.prog).properties = <<Prop(<<"u", "s", "e">>, <<"c", "o", "n", "s", "t", "r", "u", "c", "t", "o", "r">>)>>
  /\ LastRun.out.err = "TypeError"

\* S's own properties as written on a container: color is the background key
Inline(props) ==
  [n \in 1..Len(props) |->
     IF Join(props[n].key) = "color"
       THEN Prop(<<"b","a","c","k","g","r","o","u","n","d">>, props[n].value)
     ELSE props[n]]

\* C7: with a property use: S on a container, S a defined named style, the
\* container's final declaration set is the one obtained with that property
\* replaced, at the same position, by S's own properties written inline (color
\* in S read as background).
C7_UseEqualsInline ==
  (Finished /\ HasSurface(LastRun.prog)) =>
    LET prog  == LastRun.prog
        props == FirstSurface(prog).properties
        mm    == buildMaterialMap(prog.body)
    IN  \A k \in 1..Len(props) :
          (Join(props[k].key) = "use" /\ Join(props[k].value) \in DOMAIN mm)
          => Outcome(LastRun.out)
               = Outcome(compile(WithProps(prog,
                                   Replaced(props, k, Inline(mm[Join(props[k].value)].properties))),
                                 LastRun.start))

\* a container with use: m, where m defines color, has been compiled and its
\* rule holds the background declaration of m
C7_Witness ==
  /\ pc = "done" /\ runs # <<>> /\ HasSurface(LastRun.prog)
  /\ \E k \in 1..Len(FirstSurface(LastRun.prog).properties) :
       /\ Join(FirstSurface(LastRun.prog).properties[k].key) = "use"
       /\ Join(FirstSurface(LastRun.prog).properties[k].value) = "m"
  /\ <<"background", "#111">> \in Outcome(LastRun.out).decls
  /\ <<"border-radius", "4px">> \in Outcome(LastRun.out).decls

\* the keys of a declaration list, the value and the number of entries of a key
Keys(css) == {css[n][1] : n \in 1..Len(css)}
ValueOf(css, key) == css[CHOOSE n \in 1..Len(css) : css[n][1] = key][2]
Count(css, key) == Cardinality({n \in 1..Len(css) : css[n][1] = key})

\* resolvedAt[k] for k in 0..Len(props): what position k resolves to
SurfaceResolved(props, mm) ==
  [k \in 0..Len(props) |->
     IF k = 0 THEN SurfaceBaseline
     ELSE resolveSurfaceProp(props[k].key, props[k].value, mm, {}).css]
TextResolved(props) ==
  [k \in 0..Len(props) |->
     IF k = 0 THEN TextBaseline ELSE resolveTextProp(props[k].key, props[k].value)]

\* whenever two positions resolve to the same key, the rule holds that key once,
\* with the value of the last position that resolves to it
LaterWins(resolvedAt, decls) ==
  \A j, k \in DOMAIN resolvedAt :
    j < k => \A key \in Keys(resolvedAt[j]) \cap Keys(resolvedAt[k]) :
               LET last == CHOOSE n \in DOMAIN resolvedAt :
                             /\ key \in Keys(resolvedAt[n])
                             /\ \A m \in DOMAIN resolvedAt :
                                  key \in Keys(resolvedAt[m]) => m <= n
               IN  /\ Count(decls, key) = 1
                   /\ ValueOf(decls, key) = ValueOf(resolvedAt[last], key)

FirstText(prog) == FirstSurface(prog).children[1]
HasFirstText(prog) ==
  /\ HasSurface(prog)
  /\ FirstSurface(prog).children # <<>>
  /\ FirstSurface(prog).children[1].type = "Text"

C8_LaterWinsOwnKeys ==
  (pc = "done" /\ runs # <<>> /\ HasSurface(LastRun.prog)) =>
    LET prog == LastRun.prog
        mm   == buildMaterialMap(prog.body)
        Own(resolvedAt) ==
          [k \in DOMAIN resolvedAt |-> SelectSeq(resolvedAt[k], LAMBDA d : d[1] # "__proto__")]
    IN  /\ LaterWins(Own(SurfaceResolved(FirstSurface(prog).properties, mm)),
                     LastRun.out.css[1].decls)
        /\ HasFirstText(prog) =>
             LaterWins(Own(TextResolved(FirstText(prog).properties)),
                       LastRun.out.css[2].decls)

RECURSIVE NodeCount(_)
RECURSIVE NodeCountAll(_)
\* the container and text nodes of a subtree
NodeCount(node) ==
  IF node.type = "Surface" THEN 1 + NodeCountAll(node.children)
  ELSE IF node.type = "Text" THEN 1
  ELSE 0
NodeCountAll(nodes) ==
  IF nodes = <<>> THEN 0 ELSE NodeCount(Head(nodes)) + NodeCountAll(Tail(nodes))

\* the nodes compile renders: the top-level containers and all below them
RenderedCount(prog) ==
  NodeCountAll(SelectSeq(prog.body, LAMBDA n : n.type = "Surface"))

RECURSIVE ElementIds(_)
RECURSIVE ElementIdsAll(_)
\* the identifiers of the elements of a markup tree in opening-tag order
ElementIds(el) ==
  IF el.tag = "div" THEN <<el.id>> \o ElementIdsAll(el.children) ELSE <<el.id>>
ElementIdsAll(els) ==
  IF els = <<>> THEN <<>> ELSE ElementIds(Head(els)) \o ElementIdsAll(Tail(els))

RECURSIVE ElementDepth(_)
\* how many div elements are nested in each other along the first children
ElementDepth(el) ==
  IF el.tag # "div" THEN 0
  ELSE IF el.children = <<>> THEN 1
  ELSE 1 + ElementDepth(el.children[1])

\* C9: css holds exactly one rule per rendered container/text node and html one
\* element per such node; the identifiers in css rule order are those of html in
\* opening-tag order; a chain nested to depth N gives N+1 rules and N+1 nested
\* elements.
C9_OneRulePerNodeInOrder ==
  (pc = "done" /\ runs # <<>>) =>
    LET prog == LastRun.prog
        out  == LastRun.out
    IN  /\ Len(out.css) = RenderedCount(prog)
        /\ Len(ElementIdsAll(out.html)) = RenderedCount(prog)
        /\ [n \in 1..Len(out.css) |-> out.css[n].id] = ElementIdsAll(out.html)
        /\ \A N \in 0..MaxDepth :
             prog = Program(<<Chain(N)>>) =>
               /\ Len(out.css) = N + 1
               /\ Len(out.html) = 1
               /\ ElementDepth(out.html[1]) = N + 1

\* a chain nested to depth 2 and a tree with text and container siblings have
\* been compiled
C9_Witness ==
  /\ pc = "done" /\ runs # <<>>
  /\ \/ LastRun.prog = Program(<<Chain(2)>>) /\ Len(LastRun.out.css) = 3
     \/ /\ Len(LastRun.out.css) = 6
        /\ Len(LastRun.out.html) = 1
        /\ Len(LastRun.out.html[1].children) = 3

\* the names a node's use / material properties refer to, its children's included
RECURSIVE References(_)
References(node) ==
  {Join(node.properties[n].value) :
     n \in {m \in 1..Len(node.properties) :
              Join(node.properties[m].key) \in {"use", "material"}}}
    \cup (IF node.type = "Surface"
            THEN UNION {References(node.children[n]) : n \in 1..Len(node.children)}
            ELSE {})

ProgramReferences(prog) == UNION {References(prog.body[n]) : n \in 1..Len(prog.body)}

\* C11: for every finite Program compile terminates and returns css and html,
\* also when named styles reference named styles, themselves included (programs
\* that refer to a name every object inherits are left aside).
C11_CompileReturns ==
  (Finished /\ ProgramReferences(LastRun.prog) \cap ObjectPrototypeKeys = {}) =>
    LastRun.out.err = "none"

\* the style m with the properties radius: 4px and use: m, applied by the
\* container s, has been compiled: the call ended in a RangeError
C11_FailingInput ==
  /\ Finished
  /\ LastRun.prog =
       Program(<<Material(<<"m">>, <<Prop(<<"r", "a", "d", "i", "u", "s">>, <<"4", "p", "x">>), Prop(<<"u", "s", "e">>, <<"m">>)>>), StyleN,
                 Surface(<<"s">>, <<Prop(<<"u", "s", "e">>, <<"m">>)>>, <<>>)>>)
  /\ LastRun.out.err = "RangeError"

\* a style that references another style, applied by a container, compiles
C11_NestedReferenceReturns ==
  (/\ Finished
   /\ LastRun.prog =
        Program(<<Material(<<"m">>, <<Prop(<<"w", "i", "d", "t", "h">>, <<"f", "i", "l", "l">>), Prop(<<"u", "s", "e">>, <<"n">>)>>), StyleN,
                  Surface(<<"s">>, <<Prop(<<"u", "s", "e">>, <<"m">>)>>, <<>>)>>))
    => /\ LastRun.out.err = "none"
       /\ <<"background", "#222">> \in Outcome(LastRun.out).decls

\* the top-level containers of a Program, in source order
TopSurfaces(prog) == SelectSeq(prog.body, LAMBDA node : node.type = "Surface")

\* the style definitions of a body from position n on that no later definition
\* of the same name follows
RECURSIVE LastDefinitions(_, _)
LastDefinitions(body, n) ==
  IF n > Len(body) THEN <<>>
  ELSE (IF /\ body[n].type = "Material"
           /\ ~\E m \in (n + 1)..Len(body) :
                 body[m].type = "Material" /\ body[m].name = body[n].name
          THEN <<body[n]>> ELSE <<>>) \o LastDefinitions(body, n + 1)

Childless(prog) ==
  \A n \in 1..Len(prog.body) :
    prog.body[n].type = "Surface" => prog.body[n].children = <<>>

\* the k-th rule of out holds what the one rule of alone holds
SameRule(out, k, alone) ==
  /\ alone.err = "none"
  /\ out.css[k].decls = alone.css[1].decls

ColorAsBackground(props) ==
  [k \in 1..Len(props) |->
     IF Join(props[k].key) = "color"
       THEN Prop(<<"b", "a", "c", "k", "g", "r", "o", "u", "n", "d">>, props[k].value)
     ELSE props[k]]

\* prog with color written as background in every style definition
RenameColor(prog) ==
  Program([n \in 1..Len(prog.body) |->
             IF prog.body[n].type = "Material"
               THEN Material(prog.body[n].name, ColorAsBackground(prog.body[n].properties))
             ELSE prog.body[n]])

\* the value of the last property of props with the key color
LastColor(props) ==
  Join(props[CHOOSE k \in 1..Len(props) :
               /\ Join(props[k].key) = "color"
               /\ \A j \in (k + 1)..Len(props) : Join(props[j].key) # "color"].value)

HasColor(props) == \E k \in 1..Len(props) : Join(props[k].key) = "color"

\* C14: color inside a style definition yields a background declaration, also
\* where a container or another style inlines that definition by reference
\* (compile gives what it gives with color written as background in every
\* definition); color inside a text node yields a color declaration and no
\* background, whatever its container refers to.
C14_ColorByDefiningNode ==
  Finished =>
    /\ compile(RenameColor(LastRun.prog), LastRun.start) = LastRun.out
    /\ (pc = "done" /\ HasFirstText(LastRun.prog)
          /\ HasColor(FirstText(LastRun.prog).properties)) =>
         /\ <<"color", LastColor(FirstText(LastRun.prog).properties)>>
              \in Range(LastRun.out.css[2].decls)
         /\ "background" \notin Keys(LastRun.out.css[2].decls)

\* the container that applies panel (color: #111827) and holds a text with
\* color: red has been compiled: background on the container, color on the text
C14_Witness ==
  /\ pc = "done" /\ runs # <<>>
  /\ LastRun.prog =
       Program(<<Material(<<"p", "a", "n", "e", "l">>, <<Prop(<<"c", "o", "l", "o", "r">>, <<"#", "1", "1", "1", "8", "2", "7">>)>>),
                 Surface(<<"s">>, <<Prop(<<"u", "s", "e">>, <<"p", "a", "n", "e", "l">>)>>,
                         <<Text(<<"t">>, <<Prop(<<"c", "o", "l", "o", "r">>, <<"r", "e", "d">>)>>)>>)>>)
  /\ LastRun.out.css[1].decls = SurfaceBaseline \o << <<"background", "#111827">> >>
  /\ LastRun.out.css[2].decls = TextBaseline \o << <<"color", "red">> >>

\* what the size property key: value is to give: for fill, growth and a zero
\* minimum on that side; else the size as written
SizeDeclarations(prop) ==
  IF Join(prop.value) = "fill"
    THEN IF Join(prop.key) = "width"
           THEN << <<"flex", "1">>, <<"min-width", "0">> >>
         ELSE << <<"flex", "1">>, <<"min-height", "0">> >>
  ELSE << <<Join(prop.key), Join(prop.value)>> >>

\* the last position of resolvedAt that holds key
LastWith(resolvedAt, key) ==
  CHOOSE n \in DOMAIN resolvedAt :
    /\ key \in Keys(resolvedAt[n])
    /\ \A m \in DOMAIN resolvedAt : key \in Keys(resolvedAt[m]) => m <= n

\* decls holds the keys of all positions, each once, with its last value
HoldsLastValues(resolvedAt, decls) ==
  /\ Keys(decls) = UNION {Keys(resolvedAt[n]) : n \in DOMAIN resolvedAt}
  /\ \A key \in Keys(decls) :
       /\ Count(decls, key) = 1
       /\ ValueOf(decls, key) = ValueOf(resolvedAt[LastWith(resolvedAt, key)], key)

OnlySizes(props) ==
  /\ props # <<>>
  /\ \A k \in 1..Len(props) : Join(props[k].key) \in {"width", "height"}

\* C17: width: fill gives flex: 1 and min-width: 0 and no width declaration,
\* height: fill gives flex: 1 and min-height: 0 and no height declaration, any
\* other value gives the width / height declaration with that value: the rule
\* of a container with size properties holds the baseline and these
\* declarations, a later one replacing an earlier one of the same key.
C17_FillGrowsElseLiteral ==
  (pc = "done" /\ runs # <<>> /\ HasSurface(LastRun.prog)
     /\ OnlySizes(FirstSurface(LastRun.prog).properties)) =>
    HoldsLastValues([k \in 0..Len(FirstSurface(LastRun.prog).properties) |->
                       IF k = 0 THEN SurfaceBaseline
                       ELSE SizeDeclarations(FirstSurface(LastRun.prog).properties[k])],
                    LastRun.out.css[1].decls)

\* a container with width: fill and height: 50% has been compiled
C17_Witness ==
  /\ pc = "done" /\ runs # <<>> /\ HasSurface(LastRun.prog)
  /\ FirstSurface(LastRun.prog).properties = <<Prop(<<"w", "i", "d", "t", "h">>, <<"f", "i", "l", "l">>), Prop(<<"h", "e", "i", "g", "h", "t">>, <<"5", "0", "%">>)>>
  /\ LastRun.out.css[1].decls =
       SurfaceBaseline \o << <<"flex", "1">>, <<"min-width", "0">>, <<"height", "50%">> >>

\* the translucent color of three channel values and an opacity
Translucent(r, g, b, opacity) ==
  "rgba(" \o Join(NumChars(r)) \o ", " \o Join(NumChars(g)) \o ", " \o Join(NumChars(b))
          \o ", " \o opacity \o ")"

\* the one top-level node is a childless container whose one property is
\* material: glass(...
FilledWithGlass(prog) ==
  /\ Len(prog.body) = 1
  /\ prog.body[1].type = "Surface"
  /\ prog.body[1].children = <<>>
  /\ Len(prog.body[1].properties) = 1
  /\ prog.body[1].properties[1].key = <<"m", "a", "t", "e", "r", "i", "a", "l">>
  /\ Len(prog.body[1].properties[1].value) > 6
  /\ SubSeq(prog.body[1].properties[1].value, 1, 6) = <<"g", "l", "a", "s", "s", "(">>

\* if that property is material: glass(color, opacity), the container's rule
\* holds the baseline, the background fill and the two blur declarations
GlassRule(color, opacity, fill) ==
  (LastRun.prog.body[1].properties[1].value = GlassValue(color, opacity.text))
    => /\ pc = "done"
       /\ LastRun.out.css[1].decls =
            SurfaceBaseline \o << <<"background", fill>>,
                                  <<"backdrop-filter", "blur(12px)">>,
                                  <<"-webkit-backdrop-filter", "blur(12px)">> >>

\* C18: for glass, the channels of a three-digit hex color are 17 times its
\* digits (the digits doubled), those of a six-digit hex color the values of its
\* digit pairs, each within 0..255; the background is the translucent color of
\* the three channels and the opacity; a color that does not start with #
\* passes through as it is; the blur declarations are there in every case.
C18_GlassChannels ==
  (Finished /\ FilledWithGlass(LastRun.prog)) =>
    \A o \in OpacityPool :
      /\ \A x, y, z \in HexDigitPool :
           GlassRule(HexColor(x, y, z), o,
                     Translucent(17 * x.value, 17 * y.value, 17 * z.value, o.number))
      /\ \A x, y, z \in HexPairPool :
           /\ x.value \in 0..255
           /\ GlassRule(HexColor(x, y, z), o, Translucent(x.value, y.value, z.value, o.number))
      /\ \A c \in PlainColorPool : GlassRule(c, o, Join(c))

\* glass(#acF, 0.5) has been compiled to rgba(170, 204, 255, 0.5) with blur
C18_Witness ==
  /\ pc = "done" /\ runs # <<>>
  /\ LastRun.prog =
       Program(<<Surface(<<"s">>, <<Prop(<<"m", "a", "t", "e", "r", "i", "a", "l">>, <<"g", "l", "a", "s", "s", "(", "#", "a", "c", "F", ",", " ", "0", ".", "5", ")">>)>>, <<>>)>>)
  /\ LastRun.out.css[1].decls =
       SurfaceBaseline \o << <<"background", "rgba(170, 204, 255, 0.5)">>,
                             <<"backdrop-filter", "blur(12px)">>,
                             <<"-webkit-backdrop-filter", "blur(12px)">> >>

----------------------------------------------------------------------------
(* The whole pipeline on source texts: containers written line by line, and *)
(* texts put together from a header, a few chunks and a footer.             *)

RECURSIVE Flatten(_)
Flatten(seqs) == IF seqs = <<>> THEN <<>> ELSE Head(seqs) \o Flatten(Tail(seqs))

MaxLines == 2
MaxChunks == 2

\* property lines <<key, value>> of a container body
CardLinePool ==
  {<<<<"w", "i", "d", "t", "h">>, <<"3", "2", "0", "p", "x">>>>,
   <<<<"m", "a", "t", "e", "r", "i", "a", "l">>, <<"s", "o", "l", "i", "d", "(", "#", "1", "a", "1", "a", "2", "e", ")">>>>,
   <<<<"r", "a", "d", "i", "u", "s">>, <<"1", "2", "p", "x">>>>,
   <<<<"m", "a", "t", "e", "r", "i", "a", "l">>, <<"#", "0", "f", "0">>>>,
   <<<<"m", "a", "t", "e", "r", "i", "a", "l">>, <<"g", "r", "a", "d", "i", "e", "n", "t", "(", "#", "0", "0", "0", ",", " ", "#", "f", "f", "f", ")">>>>}

\* the container of the overview of syntax.md
CardExample ==
  <<<<<<"w", "i", "d", "t", "h">>, <<"3", "2", "0", "p", "x">>>>,
    <<<<"h", "e", "i", "g", "h", "t">>, <<"1", "8", "0", "p", "x">>>>,
    <<<<"m", "a", "t", "e", "r", "i", "a", "l">>, <<"s", "o", "l", "i", "d", "(", "#", "1", "a", "1", "a", "2", "e", ")">>>>,
    <<<<"r", "a", "d", "i", "u", "s">>, <<"1", "2", "p", "x">>>>>>

CardBodies == SeqsUpTo(CardLinePool, MaxLines) \cup {CardExample}

\* "  key: value\n"
CardLine(kv) == <<" ", " ">> \o kv[1] \o <<":", " ">> \o kv[2] \o <<"\n">>

\* surface card { ... } with one property per line
CardSource(lines) ==
  <<"s", "u", "r", "f", "a", "c", "e", " ", "c", "a", "r", "d", " ", "{", "\n">>
    \o Flatten([n \in 1..Len(lines) |-> CardLine(lines[n])]) \o <<"}", "\n">>

\* a block opened and a line begun with the name b: in a container, in a style
\* definition, in a text block
LineHeaders ==
  {<<"s", "u", "r", "f", "a", "c", "e", " ", "a", " ", "{", "\n", "b", " ">>,
   <<"m", "a", "t", "e", "r", "i", "a", "l", " ", "a", " ", "{", "\n", "b", " ">>,
   <<"s", "u", "r", "f", "a", "c", "e", " ", "a", " ", "{", "\n", " ", "t", "e", "x", "t", " ", "\"", "s", "\"", " ", "{", "\n", "b", " ">>}

\* starts of a source: blocks opened, reserved words with what follows left open
ChunkHeaders ==
  {<<"s", "u", "r", "f", "a", "c", "e", " ", "a", " ", "{", "\n">>,
   <<"m", "a", "t", "e", "r", "i", "a", "l", " ", "a", " ", "{", "\n">>,
   <<"s", "u", "r", "f", "a", "c", "e", " ", "a", " ", "{", "\n", " ", "t", "e", "x", "t", " ", "\"", "s", "\"", " ", "{", "\n">>,
   <<"s", "u", "r", "f", "a", "c", "e", " ">>,
   <<"s", "u", "r", "f", "a", "c", "e", " ", "a", " ">>,
   <<"s", "u", "r", "f", "a", "c", "e", " ", "a", " ", "{", "\n", " ", "t", "e", "x", "t", " ">>}
    \cup LineHeaders

\* pieces of a source: names (one of them a key every object inherits), colon,
\* line break, braces, a string, reserved words
ChunkPool ==
  {<<"b", " ">>, <<":">>, <<"\n">>, <<"{">>, <<"}">>, <<"t", "e", "x", "t", " ">>, <<"\"", "s", "\"", " ">>, <<"s", "u", "r", "f", "a", "c", "e", " ">>, <<"m", "a", "t", "e", "r", "i", "a", "l", " ">>,
   <<"c", "o", "n", "s", "t", "r", "u", "c", "t", "o", "r", " ">>}

\* nothing, one closing brace, two closing braces
ChunkFooters == {<<>>, <<"\n", "}">>, <<"\n", "}", "\n", "}">>}

PipeInputs ==
  {[kind |-> "card", lines |-> b] : b \in CardBodies}
    \cup {[kind |-> "chunks", header |-> h, chunks |-> c, footer |-> f] :
            h \in ChunkHeaders, c \in SeqsUpTo(ChunkPool, MaxChunks), f \in ChunkFooters}

SourceOf(in) ==
  IF in.kind = "card" THEN CardSource(in.lines)
  ELSE in.header \o Flatten(in.chunks) \o in.footer

Init ==
  /\ input \in PipeInputs
  /\ src = SourceOf(input)
  /\ pc = "lex"
  /\ i = 0
  /\ afterColon = FALSE
  /\ tokens = <<>>
  /\ ast = NoResult
  /\ output = NoResult
  /\ idCounter = 0
  /\ epoch = 0
  /\ runs = <<>>
  /\ host = NoDocument

Next == LexStep \/ LexEnd \/ Parse \/ Compile

Spec == Init /\ [][Next]_vars

----------------------------------------------------------------------------
(* Properties of the pipeline *)

\* parse has run on the tokens of src
Parsed == pc \in {"compile", "done", "failed"}

\* the container of a card source has the property <<key, value>>
CardHasProperty(kv) ==
  \E n \in 1..Len(ast.val.body[1].properties) :
    /\ ast.val.body[1].properties[n].key = kv[1]
    /\ ast.val.body[1].properties[n].value = kv[2]

\* line k is the last fill line of the card body
LastFillLine(lines, k) ==
  /\ Join(lines[k][1]) = "material"
  /\ \A j \in (k + 1)..Len(lines) : Join(lines[j][1]) # "material"

\* C1: end to end, for a container whose body holds the line material: <v>, the
\* container's rule includes the declarations <v> resolves to as a fill; the
\* container of the overview (width 320px, height 180px, material
\* solid(#1a1a2e), radius 12px) gets width, height, background and
\* border-radius declarations.
C1_MaterialLineGivesFill ==
  (pc \in {"done", "failed"} /\ input.kind = "card") =>
    /\ pc = "done"
    /\ \A k \in 1..Len(input.lines) :
         LastFillLine(input.lines, k) =>
           /\ CardHasProperty(input.lines[k])
           /\ Range(resolveMaterialValue(input.lines[k][2])) \subseteq Range(output.css[1].decls)
    /\ input.lines = CardExample =>
         {<<"width", "320px">>, <<"height", "180px">>,
          <<"background", "#1a1a2e">>, <<"border-radius", "12px">>}
           \subseteq Range(output.css[1].decls)

\* the container of the overview has gone through the pipeline: its tree holds
\* no material property and its rule no background declaration
C1_FailingInput ==
  /\ pc = "done" /\ input.kind = "card" /\ input.lines = CardExample
  /\ ast.val.body[1].properties =
       <<Prop(CardExample[1][1], CardExample[1][2]), Prop(CardExample[2][1], CardExample[2][2]),
         Prop(CardExample[4][1], CardExample[4][2])>>
  /\ output.css[1].decls =
       SurfaceBaseline \o << <<"width", "320px">>, <<"height", "180px">>,
                             <<"border-radius", "12px">> >>

IsKeyword(tok, words) == tok.type = TT.KEYWORD /\ Join(tok.value) \in words

\* index (1-based) of the first token at or after p that is no NEWLINE
PastNewlines(toks, p) == Min({j \in p..Len(toks) : toks[j].type # TT.NEWLINE})

\* a block header surface/material NAME { opens the token sequence
OpensBlock(toks) ==
  /\ IsKeyword(toks[1], {"surface", "material"})
  /\ toks[2].type = TT.IDENT
  /\ toks[PastNewlines(toks, 3)].type = TT.LBRACE

\* a token the grammar mandates is missing from toks = tokenize(src)
MissingToken(toks) ==
  \/ IsKeyword(toks[1], {"surface", "material"}) /\ toks[2].type # TT.IDENT
  \/ /\ IsKeyword(toks[1], {"surface", "material"})
     /\ toks[2].type = TT.IDENT
     /\ toks[PastNewlines(toks, 3)].type # TT.LBRACE
  \/ OpensBlock(toks) /\ \A n \in 1..Len(toks) : toks[n].type # TT.RBRACE
  \/ /\ OpensBlock(toks)
     /\ IsKeyword(toks[1], {"surface"})
     /\ IsKeyword(toks[PastNewlines(toks, PastNewlines(toks, 3) + 1)], {"text"})
     /\ toks[PastNewlines(toks, PastNewlines(toks, 3) + 1) + 1].type # TT.STRING

LineEnd(chunks) == Min({n \in 1..(Len(chunks) + 1) : n = Len(chunks) + 1 \/ chunks[n] = <<"\n">>})

\* the chunks on the line begun by the header, and those after it
LineChunks(chunks) == SubSeq(chunks, 1, LineEnd(chunks) - 1)
RestChunks(chunks) == SubSeq(chunks, LineEnd(chunks), Len(chunks))

\* the source of a line input with the line begun by the name b taken out
SourceWithoutLine(in) ==
  SubSeq(in.header, 1, Len(in.header) - 2) \o Flatten(RestChunks(in.chunks)) \o in.footer

\* the line begun by the name b holds no colon
ColonlessLine(in) ==
  /\ in.kind = "chunks"
  /\ in.header \in LineHeaders
  /\ \A n \in 1..Len(LineChunks(in.chunks)) : LineChunks(in.chunks)[n] # <<":">>

\* what parse gave, apart from the read position
ParseOutcome(r) == [err |-> r.err, expected |-> r.expected, got |-> r.got, val |-> r.val]

\* C4: in a container, style-definition or text block, a line that begins with
\* a name and has no colon before its end is discarded as a whole: parse gives
\* what it gives for the source without that line (no Property added, no token
\* of the line parsed as part of another construct, no failure raised by it).
C4_ColonlessLineDiscarded ==
  (Parsed /\ ColonlessLine(input)) =>
    ParseOutcome(ast) = ParseOutcome(parse(tokenize(SourceWithoutLine(input))))

\* the words text "s" after the name b on its line have become a text node of
\* the container
C4_FailingInput ==
  /\ Parsed
  /\ src = <<"s", "u", "r", "f", "a", "c", "e", " ", "a", " ", "{", "\n", "b", " ", "t", "e", "x", "t", " ", "\"", "s", "\"", " ", "\n", "}">>
  /\ ColonlessLine(input)
  /\ ast.err = "none"
  /\ ast.val.body[1].properties = <<>>
  /\ ast.val.body[1].children = <<Text(<<"s">>, <<>>)>>

----------------------------------------------------------------------------
(* The pipeline on sources put together from top-level pieces: stray       *)
(* tokens, text nodes outside a container, containers, style definitions.  *)

MaxPieces == 3

TopPieces ==
  {<<"b", " ">>, <<":">>, <<"\n">>, <<"}">>, <<"c", "o", "n", "s", "t", "r", "u", "c", "t", "o", "r", " ">>,
   <<"t", "e", "x", "t", " ", "\"", "s", "\"", " ">>, <<"t", "e", "x", "t", " ", "\"", "s", "\"", " ", "{", "\n", "s", "i", "z", "e", ":", " ", "1", "p", "x", "\n", "}", "\n">>,
   <<"s", "u", "r", "f", "a", "c", "e", " ", "a", " ", "{", "\n", "}", "\n">>, <<"m", "a", "t", "e", "r", "i", "a", "l", " ", "m", " ", "{", "\n", "}", "\n">>}

InitTop ==
  /\ \E ps \in SeqsUpTo(TopPieces, MaxPieces) :
       /\ input = [kind |-> "pieces", pieces |-> ps]
       /\ src = Flatten(ps)
  /\ pc = "lex"
  /\ i = 0
  /\ afterColon = FALSE
  /\ tokens = <<>>
  /\ ast = NoResult
  /\ output = NoResult
  /\ idCounter = 0
  /\ epoch = 0
  /\ runs = <<>>
  /\ host = NoDocument

NextTop == LexStep \/ LexEnd \/ Parse \/ Compile

SpecTop == InitTop /\ [][NextTop]_vars

\* the positions at which the loop of parseProgram enters parseStatement
RECURSIVE statementStarts(_, _, _)
statementStarts(toks, r, starts) ==
  IF Failed(r) THEN starts
  ELSE IF ~Defined(toks, r.pos) THEN starts
  ELSE IF peek(toks, r.pos).type = TT.EOF THEN starts
  ELSE statementStarts(toks, skipNewlines(toks, parseStatement(toks, r.pos)),
                       starts \cup {r.pos})

StatementStarts(toks) == statementStarts(toks, skipNewlines(toks, Ok(0, <<>>)), {})

\* the statement start that follows position p, the EOF position if none does
NextStart(toks, p) ==
  Min({q \in StatementStarts(toks) \cup {Len(toks) - 1} : q > p})

NoBlockKeyword(toks) ==
  \A n \in 1..Len(toks) : ~IsKeyword(toks[n], {"surface", "material"})

\* C12: at the top level a token that is not the reserved word surface or
\* material is discarded alone (the next statement starts right after it, line
\* breaks skipped) and adds nothing: parse gives what it gives for the tokens
\* without it, raising nothing on its account; a source without surface and
\* material, such as a bare text with or without a block, parses to an empty
\* Program and compiles to no rule and no element.
C12_TopLevelTokensDiscarded ==
  Parsed =>
    /\ \A p \in StatementStarts(tokens) :
         ~IsKeyword(peek(tokens, p), {"surface", "material"}) =>
           /\ ParseOutcome(parse(tokens)) = ParseOutcome(parse(Without(tokens, p + 1)))
           /\ NextStart(tokens, p) = skipNewlines(tokens, Ok(p + 1, <<>>)).pos
    /\ NoBlockKeyword(tokens) =>
         /\ ast.err = "none"
         /\ ast.val.body = <<>>
         /\ pc # "failed"
         /\ (pc = "done" => output.css = <<>> /\ output.html = <<>>)

\* a text with a block, a container and a stray name, all at the top level, have
\* gone through the pipeline: the Program holds the container alone
C12_Witness ==
  /\ pc = "done"
  /\ src = <<"t", "e", "x", "t", " ", "\"", "s", "\"", " ", "{", "\n", "s", "i", "z", "e", ":", " ", "1", "p", "x", "\n", "}", "\n", "s", "u", "r", "f", "a", "c", "e", " ", "a", " ", "{", "\n", "}", "\n", "b", " ">>
  /\ ast.val.body = <<Surface(<<"a">>, <<>>, <<>>)>>
  /\ Len(output.css) = 1 /\ Len(output.html) = 1

-----------------------------------------------------------------------------
(* tokenize on sources put together from words, colons, line breaks and    *)
(* comments of both forms. The letter c occurs only inside the comments,   *)
(* and so do the slash and the star.                                       *)

MaxParts == 4

LineCommentPart == <<"/", "/", " ", "c">>

BlockCommentPart == <<"/", "*", " ", "c", " ", "*", "/">>

CommentParts ==
  {<<"k">>, <<":", " ">>, <<"v", " ">>, <<"\n">>, <<"{">>, LineCommentPart, BlockCommentPart}

InitComment ==
  /\ \E ps \in SeqsUpTo(CommentParts, MaxParts) :
       /\ input = [kind |-> "parts", parts |-> ps]
       /\ src = Flatten(ps)
  /\ pc = "lex"
  /\ i = 0
  /\ afterColon = FALSE
  /\ tokens = <<>>
  /\ ast = NoResult
  /\ output = NoResult
  /\ idCounter = 0
  /\ epoch = 0
  /\ runs = <<>>
  /\ host = NoDocument

NextComment == LexStep \/ LexEnd

SpecComment == InitComment /\ [][NextComment]_vars

\* the characters that only comments hold in these sources
CommentChars == {"c", "/", "*"}

HasCommentChar(text) == \E n \in 1..Len(text) : text[n] \in CommentChars

\* text holds the opening of a block comment
HasBlockOpening(text) == \E n \in 1..(Len(text) - 1) : text[n] = "/" /\ text[n + 1] = "*"

\* C20: both comment forms are stripped by the lexer: no character of a line
\* comment or of a block comment appears in the value of any emitted token,
\* comments that follow a colon on a property line included.
C20_CommentsStripped ==
  \A n \in 1..Len(tokens) : ~HasCommentChar(tokens[n].value)

\* the property line k: v followed by a block comment: the comment is part of
\* the VALUE token
C20_FailingInput ==
  /\ pc = "parse"
  /\ input.parts = <<<<"k">>, <<":", " ">>, <<"v", " ">>, BlockCommentPart>>
  /\ tokens = <<Tok(TT.IDENT, <<"k">>), Tok(TT.COLON, <<>>),
                Tok(TT.VALUE, <<"v", " ", "/", "*", " ", "c", " ", "*", "/">>),
                Tok(TT.EOF, <<>>)>>

\* what does hold: a comment character reaches a token only through value
\* capture running over a block comment; line comments never reach a token
C20_OnlyBlockCommentInValue ==
  \A n \in 1..Len(tokens) :
    HasCommentChar(tokens[n].value) =>
      tokens[n].type = TT.VALUE /\ HasBlockOpening(tokens[n].value)

\* a line comment after a property value is left out of the VALUE token
C20_LineCommentStripped ==
  /\ pc = "parse"
  /\ input.parts = <<<<"k">>, <<":", " ">>, <<"v", " ">>, LineCommentPart>>
  /\ tokens = <<Tok(TT.IDENT, <<"k">>), Tok(TT.COLON, <<>>), Tok(TT.VALUE, <<"v">>),
                Tok(TT.EOF, <<>>)>>

----------------------------------------------------------------------------
(* One process: source units are put through the pipeline one after the   *)
(* other on the shared _idCounter; loading the script anew starts a fresh  *)
(* counter.                                                                *)

MaxCalls == 3
MaxReloads == 1

\* two containers with and without a text node, a container whose compilation
\* throws after its identifier was taken, a unit that does not parse, and the
\* empty unit
UnitSources ==
  {<<"s", "u", "r", "f", "a", "c", "e", " ", "a", " ", "{", "}">>,
   <<"s", "u", "r", "f", "a", "c", "e", " ", "a", " ", "{", "\n", "t", "e", "x", "t", " ", "\"", "t", "\"", "\n", "}">>,
   <<"s", "u", "r", "f", "a", "c", "e", " ", "a", " ", "{", "\n", "u", "s", "e", ":", " ", "c", "o", "n", "s", "t", "r", "u", "c", "t", "o", "r", "\n", "}">>,
   <<"s", "u", "r", "f", "a", "c", "e">>,
   <<>>}

Idle == pc \in {"idle", "done", "failed"}

\* processScript reads the text of the next script element
Begin(s) ==
  /\ Idle
  /\ Len(runs) < MaxCalls
  /\ src' = s
  /\ i' = 0
  /\ afterColon' = FALSE
  /\ tokens' = <<>>
  /\ ast' = NoResult
  /\ output' = NoResult
  /\ pc' = "lex"
  /\ UNCHANGED <<input, idCounter, epoch, runs, host>>

\* the script is evaluated anew: var _idCounter = 0
Reload ==
  /\ Idle
  /\ epoch < MaxReloads
  /\ idCounter' = 0
  /\ epoch' = epoch + 1
  /\ pc' = "idle"
  /\ UNCHANGED <<input, src, i, afterColon, tokens, ast, output, runs, host>>

InitProc ==
  /\ input = [kind |-> "units"]
  /\ pc = "idle"
  /\ src = <<>>
  /\ i = 0
  /\ afterColon = FALSE
  /\ tokens = <<>>
  /\ ast = NoResult
  /\ output = NoResult
  /\ idCounter = 0
  /\ epoch = 0
  /\ runs = <<>>
  /\ host = NoDocument

NextProc ==
  \/ \E s \in UnitSources : Begin(s)
  \/ LexStep
  \/ LexEnd
  \/ Parse
  \/ Compile
  \/ Reload

SpecProc == InitProc /\ [][NextProc]_vars

\* the identifiers of the rules a compile call returned
RunIds(run) == {run.out.css[n].id : n \in 1..Len(run.out.css)}

----------------------------------------------------------------------------
(* The host: init hands the script elements of the document to            *)
(* processScript one after the other; css goes to the style element        *)
(* #lumen-styles, html to a mount container.                               *)

MaxScripts == 3

\* cssBlocks.join('\n'): the css text compile returns
RECURSIVE CssText(_)
CssText(rules) ==
  IF rules = <<>> THEN ""
  ELSE IF Len(rules) = 1 THEN rules[1].text
  ELSE rules[1].text \o "\n" \o CssText(Tail(rules))

\* injectCSS with the text of the style element replaced
injectCSSReplacing(doc, css) ==
  [doc EXCEPT !.styles = [exists |-> TRUE, text |-> <<"\n" \o css>>]]

\* injectCSS(css): the style element is created if absent, and
\* textContent += '\n' + css; the text is kept as the sequence of the pieces
\* it was put together from
injectCSS(doc, css) ==
  [doc EXCEPT !.styles = [exists |-> TRUE, text |-> Append(doc.styles.text, "\n" \o css)]]

\* the container mountHTML picks: the element with the target id, else
\* #lumen-root, else a div created after the script element
mountContainer(doc, targetId) ==
  IF targetId # "" /\ targetId \in DOMAIN doc.mounts THEN targetId
  ELSE IF "lumen-root" \in DOMAIN doc.mounts THEN "lumen-root"
  ELSE "lumen-mount after script " \o Join(NumChars(doc.script))

\* container.insertAdjacentHTML('beforeend', html) on the container c
insertBeforeEnd(doc, c, html) ==
  [doc EXCEPT !.mounts =
     [d \in DOMAIN doc.mounts \cup {c} |->
        IF d # c THEN doc.mounts[d]
        ELSE IF c \in DOMAIN doc.mounts THEN doc.mounts[c] \o html
        ELSE html]]

\* mountHTML(html, targetId, scriptEl)
mountHTML(doc, html, targetId) == insertBeforeEnd(doc, mountContainer(doc, targetId), html)

\* the forEach of init reaches the next script element: processScript reads
\* its text
BeginScript ==
  /\ pc \in {"idle", "mounted", "failed"}
  /\ host.script < Len(input.scripts)
  /\ host' = [host EXCEPT !.script = host.script + 1]
  /\ src' = input.scripts[host.script + 1].source
  /\ i' = 0
  /\ afterColon' = FALSE
  /\ tokens' = <<>>
  /\ ast' = NoResult
  /\ output' = NoResult
  /\ pc' = "lex"
  /\ UNCHANGED <<input, idCounter, epoch, runs>>

\* Mount that also runs after a unit has thrown, with empty css and html
MountAfterFailure ==
  /\ pc \in {"done", "failed"}
  /\ host' = mountHTML(injectCSS(host, IF pc = "done" THEN CssText(output.css) ELSE ""),
                       IF pc = "done" THEN output.html ELSE <<>>,
                       input.scripts[host.script].target)
  /\ pc' = "mounted"
  /\ UNCHANGED <<input, src, i, afterColon, tokens, ast, output, idCounter, epoch, runs>>

\* injectCSS(output.css); mountHTML(output.html, targetId, scriptEl)
Mount ==
  /\ pc = "done"
  /\ host' = mountHTML(injectCSS(host, CssText(output.css)), output.html,
                       input.scripts[host.script].target)
  /\ pc' = "mounted"
  /\ UNCHANGED <<input, src, i, afterColon, tokens, ast, output, idCounter, epoch, runs>>

\* a container with a text node, a unit that does not parse, a unit whose
\* compilation throws after its identifier was taken
HostSources ==
  {<<"s", "u", "r", "f", "a", "c", "e", " ", "a", "{", "t", "e", "x", "t", " ", "\"", "t", "\"", "}">>,
   <<"s", "u", "r", "f", "a", "c", "e">>,
   <<"s", "u", "r", "f", "a", "c", "e", " ", "a", "{", "\n", "u", "s", "e", ":", "c", "o", "n", "s", "t", "r", "u", "c", "t", "o", "r", "\n", "}">>}

\* the target attribute: absent, or the id of an element of the document
HostTargets == {"", "app"}

HostScripts ==
  SeqsUpTo({[source |-> s, target |-> t] : s \in HostSources, t \in HostTargets}, MaxScripts)

\* the document before init: the element #app, and either no style element and
\* no #lumen-root, or both, the style element with text of its own
HostDocuments ==
  {[styles |-> [exists |-> FALSE, text |-> <<>>],
    mounts |-> [c \in {"app"} |-> <<>>], script |-> 0],
   [styles |-> [exists |-> TRUE, text |-> <<"/* own */">>],
    mounts |-> [c \in {"app", "lumen-root"} |-> <<>>], script |-> 0]}

InitHost ==
  /\ \E ss \in HostScripts, doc \in HostDocuments :
       /\ input = [kind |-> "host", scripts |-> ss, document |-> doc]
       /\ host = doc
  /\ pc = "idle"
  /\ src = <<>>
  /\ i = 0
  /\ afterColon = FALSE
  /\ tokens = <<>>
  /\ ast = NoResult
  /\ output = NoResult
  /\ idCounter = 0
  /\ epoch = 0
  /\ runs = <<>>

NextHost == BeginScript \/ LexStep \/ LexEnd \/ Parse \/ Compile \/ Mount

SpecHost == InitHost /\ [][NextHost]_vars

\* tokenize, parse and compile of one source from counter on, as one function;
\* a throw of parse leaves the counter where it is
pipelineCompile(r, counter) ==
  IF r.err # "none" THEN [err |-> r.err, counter |-> counter, css |-> <<>>, html |-> <<>>]
  ELSE compile(r.val, counter)

Pipeline(source, counter) == pipelineCompile(parse(tokenize(source)), counter)

\* the document after the script elements k..n, the units that throw left out
RECURSIVE MountedFrom(_, _, _, _, _)
RECURSIVE mountedNext(_, _, _, _, _)
MountedFrom(scripts, k, n, doc, counter) ==
  IF k > n THEN doc
  ELSE mountedNext(scripts, k, n, [doc EXCEPT !.script = k],
                   Pipeline(scripts[k].source, counter))

mountedNext(scripts, k, n, doc, r) ==
  MountedFrom(scripts, k + 1, n,
              IF r.err # "none" THEN doc
              ELSE mountHTML(injectCSS(doc, CssText(r.css)), r.html, scripts[k].target),
              r.counter)

\* C15: a unit whose tokenize, parse or compile raises adds nothing to the
\* style element and to the mount containers, and the units after it are still
\* compiled and mounted: the document is the one obtained from the units that
\* do not raise alone whenever processScript has returned, and after a failure
\* the next script element is taken up.
C15_FailureIsLocal ==
  /\ pc \in {"idle", "mounted", "failed"} =>
       host = MountedFrom(input.scripts, 1, host.script, input.document, 0)
  /\ (pc = "failed" /\ host.script < Len(input.scripts)) => ENABLED BeginScript

\* a unit that does not parse and a unit whose compilation throws have been
\* processed, and the unit after them is mounted in #app
C15_Witness ==
  /\ pc = "mounted" /\ host.script = 3
  /\ Pipeline(input.scripts[1].source, 0).err = "LumenError"
  /\ Pipeline(input.scripts[2].source, 0).err = "TypeError"
  /\ input.scripts[3].target = "app"
  /\ ~input.document.styles.exists
  /\ host.styles.text = <<"\n" \o CssText(output.css)>>
  /\ host.mounts = [c \in {"app"} |-> output.html]
  /\ Len(output.html) = 1 /\ output.html[1].id = "lm2"

\* the compile calls whose css has reached the style element
Injected == IF pc = "done" THEN SubSeq(runs, 1, Len(runs) - 1) ELSE runs

\* '\n' + css for each call that returned, in order
RECURSIVE CssPieces(_)
CssPieces(calls) ==
  IF calls = <<>> THEN <<>>
  ELSE IF Head(calls).out.err # "none" THEN CssPieces(Tail(calls))
  ELSE <<"\n" \o CssText(Head(calls).out.css)>> \o CssPieces(Tail(calls))

IsPrefix(s, t) == Len(s) <= Len(t) /\ SubSeq(t, 1, Len(s)) = s

SinkHoldsCssInOrder ==
  host.styles.text = input.document.styles.text \o CssPieces(Injected)

SinkOnlyGrows == IsPrefix(host.styles.text, host'.styles.text)

\* C16: the style element is append-only: at every moment its text is the text
\* it had before init followed, in processing order, by the css of each unit
\* that compiled (each after a line break), and no step removes or replaces
\* text already in it.
C16_SinkAppendOnly == []SinkHoldsCssInOrder /\ [][SinkOnlyGrows]_vars

\* three units have been mounted into a document whose style element had text
\* of its own: that text is followed by the three css texts
C16_Witness ==
  /\ pc = "mounted" /\ Len(runs) = 3
  /\ host.styles.text =
       <<"/* own */", "\n" \o CssText(runs[1].out.css), "\n" \o CssText(runs[2].out.css),
         "\n" \o CssText(runs[3].out.css)>>
  /\ runs[3].out.css[1].id = "lm5"

-----------------------------------------------------------------------------
(* LUMEN.parse on the tokens of a source and on the same tokens with       *)
(* NEWLINE tokens put between two adjacent ones.                           *)

MaxBreaks == 2

BreakSources ==
  {<<"s", "u", "r", "f", "a", "c", "e", " ", "a", " ", "{", "\n", "t", "e", "x", "t", " ", "\"", "s", "\"", "\n", "}">>,
   <<"s", "u", "r", "f", "a", "c", "e", " ", "a", " ", "{", "\n", "k", ":", " ", "v", "\n", "s", "u", "r", "f", "a", "c", "e", " ", "b", " ", "{", "\n", "}", "\n", "}">>,
   <<"s", "u", "r", "f", "a", "c", "e", " ", "a", " ", "{", "\n", "t", "e", "x", "t", " ", "\"", "s", "\"", " ", "{", "\n", "k", ":", " ", "v", "\n", "}", "\n", "}">>,
   <<"m", "a", "t", "e", "r", "i", "a", "l", " ", "m", " ", "{", "\n", "k", ":", " ", "v", "\n", "b", "\n", "}">>,
   <<"s", "u", "r", "f", "a", "c", "e", " ", "a", " ", "{", "\n", "k", ":", " ", "\"", "s", "\"", "\n", "}", "\n", "b">>}

InitBreaks ==
  /\ \E s \in BreakSources :
       /\ src = s
       /\ \E n \in 1..(Len(tokenize(s)) - 1), k \in 1..MaxBreaks :
            input = [kind |-> "breaks", at |-> n, count |-> k]
  /\ pc = "lex"
  /\ i = 0
  /\ afterColon = FALSE
  /\ tokens = <<>>
  /\ ast = NoResult
  /\ output = NoResult
  /\ idCounter = 0
  /\ epoch = 0
  /\ runs = <<>>
  /\ host = NoDocument

NextBreaks == LexStep \/ LexEnd \/ Parse

SpecBreaks == InitBreaks /\ [][NextBreaks]_vars

\* toks with k NEWLINE tokens put between its n-th token and the next
InsertBreaks(toks, n, k) ==
  SubSeq(toks, 1, n) \o [j \in 1..k |-> Tok(TT.NEWLINE, <<>>)] \o SubSeq(toks, n + 1, Len(toks))

\* C21: line-break tokens are insignificant to the parser at every position:
\* with any number of NEWLINE tokens put between two adjacent tokens (between a
\* reserved word and its name, between text and its quoted text, ...) parse
\* succeeds or fails as before and gives the same Program.
C21_BreaksInsignificant ==
  Parsed => ParseOutcome(parse(InsertBreaks(tokens, input.at, input.count))) = ParseOutcome(ast)

\* surface a { text "s" } parses; with one NEWLINE token between surface and
\* its name, expect(IDENT) throws
C21_FailingInput ==
  /\ pc = "compile"
  /\ src = <<"s", "u", "r", "f", "a", "c", "e", " ", "a", " ", "{", "\n", "t", "e", "x", "t", " ", "\"", "s", "\"", "\n", "}">>
  /\ input.at = 1 /\ input.count = 1
  /\ ast.val.body = <<Surface(<<"a">>, <<>>, <<Text(<<"s">>, <<>>)>>)>>
  /\ parse(InsertBreaks(tokens, 1, 1)).err = "LumenError"
  /\ parse(InsertBreaks(tokens, 1, 1)).expected = TT.IDENT
  /\ parse(InsertBreaks(tokens, 1, 1)).got = TT.NEWLINE

\* the positions at which parse does not skip line breaks: after a reserved
\* word, and between a colon and the value that follows it
BreakMatters(toks, n) ==
  \/ toks[n].type = TT.KEYWORD
  \/ toks[n].type = TT.COLON /\ toks[n + 1].type \in {TT.VALUE, TT.STRING}

\* what does hold: at every other position the NEWLINE tokens change nothing
C21_InsignificantElsewhere ==
  (Parsed /\ ~BreakMatters(tokens, input.at)) =>
    ParseOutcome(parse(InsertBreaks(tokens, input.at, input.count))) = ParseOutcome(ast)

-----------------------------------------------------------------------------
(* tokenize on sources put together from words: the reserved words, words  *)
(* that differ from them in case or length, and names every JavaScript     *)
(* object inherits.                                                        *)

MaxWords == 3

WordPool ==
  {<<"s", "u", "r", "f", "a", "c", "e">>, <<"m", "a", "t", "e", "r", "i", "a", "l">>, <<"t", "e", "x", "t">>, <<"S", "u", "r", "f", "a", "c", "e">>, <<"t", "e", "x", "t", "s">>, <<"t", "e", "x", "t", "-", "1">>,
   <<"_", "t">>, <<"c", "o", "n", "s", "t", "r", "u", "c", "t", "o", "r">>, <<"t", "o", "S", "t", "r", "i", "n", "g">>, <<"_", "_", "p", "r", "o", "t", "o", "_", "_">>}

\* a word and the blank that ends it, a colon, a line break
WordParts == {Append(w, " ") : w \in WordPool} \cup {<<":">>, <<"\n">>}

InitWords ==
  /\ \E ps \in SeqsUpTo(WordParts, MaxWords) :
       /\ input = [kind |-> "words", parts |-> ps]
       /\ src = Flatten(ps)
  /\ pc = "lex"
  /\ i = 0
  /\ afterColon = FALSE
  /\ tokens = <<>>
  /\ ast = NoResult
  /\ output = NoResult
  /\ idCounter = 0
  /\ epoch = 0
  /\ runs = <<>>
  /\ host = NoDocument

NextWords == LexStep \/ LexEnd

SpecWords == InitWords /\ [][NextWords]_vars

\* the identifier that starts at index k of s (0-based)
WordAt(s, k) == Slice(s, k, ScanPast(s, k, IdentChar))

\* the token the claim gives to the identifier word
ClassifiedToken(word) ==
  IF Join(word) \in KEYWORDS THEN Tok(TT.KEYWORD, word) ELSE Tok(TT.IDENT, word)

\* the loop is about to read an identifier in normal mode
AtIdentifier == pc = "lex" /\ i < Len(src) /\ TokBranch(src, LexState) = "ident"

\* C22: in normal mode every identifier read by tokenize is emitted as a KEYWORD
\* token if and only if it equals surface, material or text, and as an IDENT
\* token otherwise.
C22_KeywordIffReserved ==
  /\ AtIdentifier =>
       TokStep(src, LexState).tokens = Append(tokens, ClassifiedToken(WordAt(src, i)))
  /\ \A n \in 1..Len(tokens) :
       /\ tokens[n].type = TT.KEYWORD => Join(tokens[n].value) \in KEYWORDS
       /\ tokens[n].type = TT.IDENT => Join(tokens[n].value) \notin KEYWORDS

\* the word constructor has been read as a KEYWORD token
C22_FailingInput ==
  /\ pc = "parse"
  /\ src = <<"c", "o", "n", "s", "t", "r", "u", "c", "t", "o", "r", " ">>
  /\ tokens = <<Tok(TT.KEYWORD, <<"c", "o", "n", "s", "t", "r", "u", "c", "t", "o", "r">>), Tok(TT.EOF, <<>>)>>

\* src holds none of the names an object inherits
NoInheritedWord ==
  \A n \in 1..Len(input.parts) : Join(WordAt(input.parts[n], 0)) \notin ObjectPrototypeKeys

\* what does hold: in sources without an inherited name, the three reserved
\* words and no other word become KEYWORD tokens
C22_HoldsForOtherWords == NoInheritedWord => C22_KeywordIffReserved

\* Surface, texts and text-1 differ from the reserved words and are IDENT tokens
C22_NearWordsAreNames ==
  /\ pc = "parse"
  /\ tokens = <<Tok(TT.IDENT, <<"S", "u", "r", "f", "a", "c", "e">>), Tok(TT.IDENT, <<"t", "e", "x", "t", "s">>),
                Tok(TT.IDENT, <<"t", "e", "x", "t", "-", "1">>), Tok(TT.EOF, <<>>)>>

-----------------------------------------------------------------------------
(* Properties of the pipeline: the tokens around a colon, and the Property *)
(* nodes they become.                                                      *)

\* the Property nodes of a node and of the nodes below it
RECURSIVE NodeProperties(_)
NodeProperties(node) ==
  Range(node.properties)
    \cup (IF node.type = "Surface"
          THEN UNION {NodeProperties(node.children[n]) : n \in 1..Len(node.children)}
          ELSE {})

TreeProperties(prog) == UNION {NodeProperties(prog.body[n]) : n \in 1..Len(prog.body)}

\* the values of the VALUE tokens, as parseProperty trims them
RawValues == {Trim(tokens[n].value) : n \in {m \in 1..Len(tokens) : tokens[m].type = TT.VALUE}}

\* C23: in every token sequence tokenize produces, a VALUE token occurs only
\* immediately after a COLON token, and the token immediately after a COLON is a
\* VALUE, a NEWLINE or the EOF token, never a STRING token; so parseProperty
\* never takes its STRING alternative, and every property value of the tree is
\* the text of a VALUE token (a quoted value with its quote characters) or
\* empty.
C23_ValueFollowsColon ==
  /\ \A n \in 1..Len(tokens) :
       tokens[n].type = TT.VALUE => (n > 1 /\ tokens[n - 1].type = TT.COLON)
  /\ \A n \in 1..(Len(tokens) - 1) :
       tokens[n].type = TT.COLON => tokens[n + 1].type \in {TT.VALUE, TT.NEWLINE, TT.EOF}
  /\ (pc \in {"compile", "done"}) =>
       \A p \in TreeProperties(ast.val) : p.value \in RawValues \cup {<<>>}

\* the line b :"s" of a container: the quoted text after the colon is a VALUE
\* token with its quotes, and the value of the Property node
C23_Witness ==
  /\ pc = "done"
  /\ src = <<"s", "u", "r", "f", "a", "c", "e", " ", "a", " ", "{", "\n", "b", " ", ":", "\"", "s", "\"", " ", "\n", "}">>
  /\ tokens = <<Tok(TT.KEYWORD, <<"s", "u", "r", "f", "a", "c", "e">>), Tok(TT.IDENT, <<"a">>), Tok(TT.LBRACE, <<>>),
                Tok(TT.NEWLINE, <<>>), Tok(TT.IDENT, <<"b">>), Tok(TT.COLON, <<>>),
                Tok(TT.VALUE, <<"\"", "s", "\"">>), Tok(TT.NEWLINE, <<>>), Tok(TT.RBRACE, <<>>),
                Tok(TT.EOF, <<>>)>>
  /\ ast.val.body = <<Surface(<<"a">>, <<Prop(<<"b">>, <<"\"", "s", "\"">>)>>, <<>>)>>


====
